---- MODULE Spec2Model ----
(***************************************************************************)
(* Model of the monthly-inbox-bot pipeline.                               *)
(*                                                                         *)
(* The repository holds three programs that walk an input folder:          *)
(*   prog = "multistage" : run_switch_stage + stageNN_* of                 *)
(*                         monthly_pipeline_MULTISTAGE.py                  *)
(*   prog = "stage00"    : monthly_main.main dispatching to                *)
(*                         stages/stage00.py run                           *)
(*   prog = "inbox"      : main.py main (the inbox bot)                    *)
(* One behaviour is a sequence of runs of one program against one Dropbox  *)
(* store.  Every store call is one step, so that a failure or a kill       *)
(* between two store calls is a reachable state.                           *)
(*                                                                         *)
(* File contents are identified with their SHA-256 digest, written as a    *)
(* pair <<first 12 hex digits, remaining digits>>.  The transform of a     *)
(* stage (workbook export, overview call, OpenAI call) is an opaque step   *)
(* that either returns or raises.                                          *)
(***************************************************************************)
EXTENDS Integers, Sequences, FiniteSets, TLC

\* ---------------------------------------------------------------- bounds
NumNames == 3        \* file names that can appear in the input folder
NumPrefix == 2       \* distinct 12-hex-digit digest prefixes
NumRest == 2         \* distinct digest remainders per prefix
MaxCap == 2          \* largest MAX_FILES_PER_RUN tried
MaxRuns == 2         \* runs per behaviour
MaxUploads == 1      \* files the user (re)uploads between runs
MaxFaults == 1       \* store calls / transforms that fail, and kills
MaxEvents == 3       \* audit records handed to one audit sink
MaxClock == 2        \* seconds that pass while an audit sink is in use
MaxFlushes == 3      \* writes of a log file by one audit sink
MaxTokenK == 6       \* max_output_tokens tried, in thousands
MaxCalls == 3        \* calls of append_outbox_index per behaviour
MaxIndexLines == 6   \* lines of INDEX.md that fit in max_bytes

Names == 1..NumNames
Digests == (1..NumPrefix) \X (1..NumRest)
NoFile == [content |-> <<0, 0>>, rev |-> 0]
Progs == {"multistage", "stage00", "inbox"}
MStages == {"00", "10", "20"}
AllStages == MStages \cup {"30"}
\* max_output_tokens = _get_int_env("OPENAI_MAX_OUTPUT_TOKENS", "MAX_OUTPUT_TOKENS", default=5000)
DefaultTokens == 5000
\* the values of max_output_tokens the PDF path is exercised with
TokenChoices == {1000 * k : k \in 1..MaxTokenK}
DStages == {"00", "10"}

\* ---------------------------------------------------------------- state
VARIABLES
    prog,       \* which program the runs execute
    stage,      \* MONTHLY_STAGE
    cap,        \* MAX_FILES_PER_RUN
    creds,      \* Dropbox credentials in the environment
    pathsSet,   \* the stage's in/out/done paths are configured
    statePath,  \* STATE_PATH is configured
    max_output_tokens, \* OPENAI_MAX_OUTPUT_TOKENS / MAX_OUTPUT_TOKENS
    inDir,      \* <stage>/IN : name -> file or NoFile
    outDir,     \* artifacts written by the stage (own OUT or next stage's IN)
    doneDir,    \* <stage>/DONE : set of archived originals
    stateDoc,   \* the persisted state document (STATE_PATH)
    nextRev,    \* next revision token the store hands out
    run,        \* number of runs started
    pc,         \* position of the running program
    files,      \* listing taken by the run
    idx,        \* loop index into files
    ledger,     \* in-memory ledger of the run
    loaded,     \* the ledger as the run loaded it
    processed,  \* processed / processed_count of the run
    audit,      \* audit events / log lines of the run
    ops,        \* store calls issued by the run, in order
    rc,         \* how the last run ended
    worked,     \* history: every file a run started to transform
    hist,       \* history: did every earlier run load / save the state document,
                \* and the number of uploads when the current run started
    otherIn,    \* names pending in the IN directory of every other stage
    logs,       \* the log files in the store: set of [path, body]
    stdout,     \* what the run printed, line by line
    logger,     \* which audit sink is exercised on its own
    clock,      \* the wall clock, in seconds
    uploads,    \* uploads done by the user
    faults      \* failures injected so far

vars == <<prog, stage, cap, creds, pathsSet, statePath, max_output_tokens, inDir, outDir, doneDir, stateDoc, nextRev,
          run, pc, files, idx, ledger, loaded, processed, audit, ops, rc,
          worked, hist, otherIn, logs, stdout, logger, clock, uploads, faults>>

cfgVars == <<prog, stage, cap, creds, pathsSet, statePath, max_output_tokens>>
logVars == <<logs, stdout, logger, clock>>
storeVars == <<inDir, outDir, doneDir, stateDoc, nextRev>>

\* ---------------------------------------------------------------- helpers
Min(a, b) == IF a <= b THEN a ELSE b
Max(a, b) == IF a >= b THEN a ELSE b

RECURSIVE SortedSeq(_)
SortedSeq(S) ==
    IF S = {} THEN <<>>
    ELSE LET m == CHOOSE x \in S : \A y \in S : x <= y
         IN <<m>> \o SortedSeq(S \ {m})

\* dbx.list_folder(<stage>/IN): the files of the folder, in listing order
Listing(dir) == SortedSeq({n \in Names : dir[n] # NoFile})

Op(o, d, n, ok) == [op |-> o, dir |-> d, file |-> n, ok |-> ok]
\* a write of a log file, with the path it targets
LogOp(p, ok) == [op |-> "write", dir |-> "LOGS", file |-> 0, ok |-> ok, path |-> p]
Ev(e, n) == [event |-> e, file |-> n]

\* mutant: a digest that ignores the content
Sha12Const(c) == 0

\* hashlib.sha256(data).hexdigest()[:12]
Sha12Trunc(c) == c[1]
_sha12(c) == Sha12Trunc(c)

\* key = f"{stage}:{name}:{_sha12(raw)}"
StageKey(s, n, c) == <<s, n, _sha12(c)>>

\* the state document as written by a save
SavedDoc(keys) == [exists |-> TRUE, json |-> "object", proc |-> "map", keys |-> keys]
MissingDoc == [exists |-> FALSE, json |-> "invalid", proc |-> "absent", keys |-> {}]
BadJsonDoc == [exists |-> TRUE, json |-> "invalid", proc |-> "absent", keys |-> {}]

\* outcome of one store call: it fails when the credentials are invalid,
\* and may fail while the failure budget lasts
StoreCall(ok) ==
    /\ ok \in (IF creds = "invalid" THEN {FALSE}
               ELSE IF faults < MaxFaults THEN BOOLEAN ELSE {TRUE})
    /\ faults' = IF ok \/ creds = "invalid" THEN faults ELSE faults + 1

\* outcome of a transform: it may raise while the failure budget lasts
TransformCall(ok) ==
    /\ ok \in (IF faults < MaxFaults THEN BOOLEAN ELSE {TRUE})
    /\ faults' = IF ok THEN faults ELSE faults + 1

EndRun(code) == pc' = "idle" /\ rc' = code

\* ---------------------------------------------------------------- log text
\* a log text is a sequence of tokens: JSON documents and newlines
NL == [nl |-> TRUE]

\* json.dumps(e, ensure_ascii=False)
Json(e) == [json |-> e]

\* mutant: the lines are joined without a separator
JoinNoSep(lines) == lines

\* "\n".join(lines)
RECURSIVE Join(_)
Join(lines) ==
    IF Len(lines) <= 1 THEN lines
    ELSE <<lines[1], NL>> \o Join(Tail(lines))

\* Audit.to_jsonl / the data of AuditLogger.flush: "\n".join(lines) + "\n"
to_jsonl(events) == Join([i \in 1..Len(events) |-> Json(events[i])]) \o <<NL>>

\* print(safe_json(e)) for every event: one line each
safe_json(events) == [i \in 1..Len(events) |-> Json(events[i])]

\* a write with overwrite: the file at the path is replaced
WriteLog(l, p, b) == {x \in l : x.path # p} \cup {[path |-> p, body |-> b]}

\* ---------------------------------------------------------------- state ledger
\* Result of the body of a load: it either raised or produced the processed mapping.
Raised == [raised |-> TRUE, keys |-> {}]
Loaded(keys) == [raised |-> FALSE, keys |-> keys]

\* state_store.py StateStore.load, the statements inside the try
StateStoreLoadBody(doc, readOK) ==
    IF ~readOK \/ ~doc.exists THEN Raised              \* dbx.download_to_bytes raises
    ELSE IF doc.json = "invalid" THEN Raised             \* json.loads raises
    ELSE IF doc.json # "object" THEN Loaded({})          \* base stays _empty()
    ELSE IF doc.proc # "map" THEN Loaded({})             \* setdefault / not a dict -> {}
    ELSE Loaded(doc.keys)

\* mutant: the load without its except clause
StateStoreLoad_NoCatch(doc, readOK) == StateStoreLoadBody(doc, readOK)

\* state_store.py StateStore.load: try ... except Exception: return empty
StateStoreLoad(doc, readOK) ==
    LET r == StateStoreLoadBody(doc, readOK)
    IN IF r.raised THEN Loaded({}) ELSE r

\* state.py StateStore.load, the statements inside the try
StateLoadBody(doc, readOK) ==
    IF ~readOK \/ ~doc.exists THEN Raised              \* _dbx_read_bytes raises
    ELSE IF doc.json = "invalid" THEN Raised             \* json.loads raises
    ELSE IF doc.json # "object" THEN Loaded({})          \* not a dict -> {}
    ELSE IF doc.proc = "absent" THEN Loaded({})          \* data.get("processed", {})
    ELSE IF doc.proc # "map" THEN Loaded({})             \* not isinstance(processed, dict)
    ELSE Loaded(doc.keys)

\* state.py StateStore.load: try ... except Exception: start empty
StateLoad(doc, readOK) ==
    LET r == StateLoadBody(doc, readOK)
    IN IF r.raised THEN Loaded({}) ELSE r

\* load_state(dbx, path) / load_state(text): never raises, empty on any failure
load_state(doc, readOK) ==
    IF readOK /\ doc.exists /\ doc.json = "object" /\ doc.proc = "map"
    THEN doc.keys ELSE {}

\* ---------------------------------------------------------------- runs
ResetRun ==
    /\ files' = <<>>
    /\ idx' = 0
    /\ ledger' = {}
    /\ loaded' = {}
    /\ processed' = 0
    /\ audit' = <<>>
    /\ ops' = <<>>
    /\ rc' = "none"

\* the run read the state document / ended with the state document saved
RunLoadOK == \A i \in DOMAIN ops :
                (ops[i].op = "read" /\ ops[i].dir = "STATE") => ops[i].ok
RunSaveOK == /\ rc \in {"0", "1", "2"}
             /\ \A i \in DOMAIN ops :
                   (ops[i].op = "write" /\ ops[i].dir = "STATE") => ops[i].ok

FirstPc == IF prog = "multistage" THEN "m_load"
           ELSE IF prog = "stage00" THEN "d_start"
           ELSE "i_load"

\* the scheduler starts the next run
StartRun ==
    /\ pc = "idle"
    /\ run < MaxRuns
    /\ run' = run + 1
    /\ pc' = FirstPc
    /\ ResetRun
    /\ hist' = [loads |-> hist.loads /\ (run = 0 \/ RunLoadOK),
                saves |-> hist.saves /\ (run = 0 \/ RunSaveOK),
                ups   |-> uploads]
    /\ stdout' = <<>>
    /\ UNCHANGED <<cfgVars, storeVars, worked, uploads, faults>>
    /\ UNCHANGED otherIn
    /\ UNCHANGED <<logs, logger, clock>>

\* between two runs the user uploads a file into <stage>/IN
Upload ==
    /\ pc = "idle"
    /\ uploads < MaxUploads
    /\ \E n \in Names, c \in Digests :
          inDir' = [inDir EXCEPT ![n] = [content |-> c, rev |-> nextRev]]
    /\ nextRev' = nextRev + 1
    /\ uploads' = uploads + 1
    /\ UNCHANGED <<cfgVars, outDir, doneDir, stateDoc, run, pc, files, idx, ledger,
                   processed, audit, ops, rc, worked, hist, faults>>
    /\ UNCHANGED loaded
    /\ UNCHANGED otherIn
    /\ UNCHANGED logVars

\* the process is killed between two steps of a run
Kill ==
    /\ pc # "idle"
    /\ faults < MaxFaults
    /\ faults' = faults + 1
    /\ EndRun("killed")
    /\ UNCHANGED <<cfgVars, storeVars, run, files, idx, ledger, processed, audit,
                   ops, worked, hist, uploads>>
    /\ UNCHANGED loaded
    /\ UNCHANGED otherIn
    /\ UNCHANGED logVars

\* ---------------------------------------------------------------- multistage
\* the file the loop is at
Cur == files[idx]
CurFile == inDir[Cur]

\* the stage after s: 00 inbox, 10 prep, 20 overview, 30 outbox
Succ(s) == IF s = "00" THEN "10" ELSE IF s = "10" THEN "20" ELSE "30"

\* out_path of the stage: the next stage's IN (00, 10) or the outbox's OUT (20)
MOutDir_Own == "OUT"
MOutDir == IF stage = "20" THEN "NEXT_OUT" ELSE "NEXT_IN"

\* the IN directories of the other stages after out_path was written for file n
Forwarded(o, n) == IF MOutDir = "NEXT_IN" THEN [o EXCEPT ![Succ(stage)] = @ \cup {n}] ELSE o

Artifact(d, n, k, f) == [dir |-> d, name |-> n, key |-> k, content |-> f.content, run |-> run]
Work(n, k, f) == [run |-> run, name |-> n, key |-> k, content |-> f.content]

\* _move_to_done: dbx.move(src, f"{done_dir}/{name}", overwrite=True)
MDoneName(n, f) == <<n, 0, 0>>
Archive(done, fname, f) ==
    {e \in done : e.fname # fname} \cup {[fname |-> fname, content |-> f.content]}

\* run_switch_stage: _ensure_stage_dirs, load_state
M_Load ==
    /\ pc = "m_load"
    /\ \E ok \in BOOLEAN :
          /\ StoreCall(ok)
          /\ ledger' = load_state(stateDoc, ok)
          /\ loaded' = load_state(stateDoc, ok)
          /\ ops' = ops \o <<Op("mkdir", "ALL", 0, TRUE), Op("read", "STATE", 0, ok)>>
    /\ pc' = "m_list"
    /\ UNCHANGED <<cfgVars, storeVars, run, files, idx, processed, audit, rc,
                   worked, hist, uploads>>
    /\ UNCHANGED otherIn
    /\ UNCHANGED logVars

\* the pipeline order of the stages that have a stage function
Order == <<"00", "10", "20">>

\* the IN directory of stage s holds at least one file
HasInput(s) == IF s = stage THEN \E n \in Names : inDir[n] # NoFile ELSE otherIn[s] # {}

\* the stages in pipeline order from the hint on, wrapping to the beginning
Scan(hint) ==
    LET p == CHOOSE i \in 1..Len(Order) : Order[i] = hint
    IN [k \in 1..Len(Order) |-> Order[((p + k - 2) % Len(Order)) + 1]]

\* mutant: the first stage with pending work, scanning from the hint
Dispatch_Scan(hint) ==
    IF hint \notin MStages THEN "none"
    ELSE IF ~ \E k \in 1..Len(Order) : HasInput(Scan(hint)[k]) THEN hint
    ELSE Scan(hint)[CHOOSE k \in 1..Len(Order) :
                        /\ HasInput(Scan(hint)[k])
                        /\ \A j \in 1..(k - 1) : ~HasInput(Scan(hint)[j])]

\* run_switch_stage: if stage == "00" ... elif "10" ... elif "20" ... else: n = 0
Dispatch(hint) == IF hint \in MStages THEN hint ELSE "none"

\* _list_files(dbx, <IN of stage s>)
ListingOf(s) == IF s = stage THEN Listing(inDir) ELSE SortedSeq(otherIn[s])

\* run_switch_stage: no stage function for this MONTHLY_STAGE: n = 0, then save_state
M_NoStage ==
    /\ pc = "m_list"
    /\ Dispatch(stage) = "none"
    /\ pc' = "m_save"
    /\ UNCHANGED <<cfgVars, storeVars, run, files, idx, ledger, loaded, processed, audit,
                   ops, rc, worked, hist, otherIn, uploads, faults>>
    /\ UNCHANGED logVars

\* stageNN_*: files = _list_files(dbx, <stage>/IN); if not files: return 0
M_List ==
    /\ pc = "m_list"
    /\ Dispatch(stage) # "none"
    /\ \E ok \in BOOLEAN :
          /\ StoreCall(ok)
          /\ ops' = Append(ops, Op("list", "IN", 0, ok))
          /\ IF ok
             THEN /\ files' = ListingOf(Dispatch(stage))
                  /\ idx' = 1
                  /\ pc' = IF ListingOf(Dispatch(stage)) = <<>> THEN "m_save" ELSE "m_read"
                  /\ rc' = rc
             ELSE /\ EndRun("exception")
                  /\ UNCHANGED <<files, idx>>
    /\ UNCHANGED <<cfgVars, storeVars, run, ledger, processed, audit, worked, hist, uploads>>
    /\ UNCHANGED loaded
    /\ UNCHANGED otherIn
    /\ UNCHANGED logVars

\* for name, path in xlsx[: cfg.max_files_per_run]
MLoopBound == Min(Len(files), cap)

\* mutant: the loop never looks the key up in done_keys
M_Read_NoLookup ==
    /\ pc = "m_read"
    /\ idx <= MLoopBound
    /\ \E ok \in BOOLEAN :
          /\ StoreCall(ok)
          /\ ops' = Append(ops, Op("read", "IN", Cur, ok))
          /\ IF ~ok
             THEN idx' = idx + 1 /\ pc' = pc
             ELSE idx' = idx /\ pc' = "m_transform"
    /\ UNCHANGED <<cfgVars, storeVars, run, files, ledger, loaded, processed, audit, rc,
                   worked, hist, uploads>>
    /\ UNCHANGED otherIn
    /\ UNCHANGED logVars

\* raw = dbx.read_bytes_or_none(path); key in done_keys
M_Read ==
    /\ pc = "m_read"
    /\ idx <= MLoopBound
    /\ \E ok \in BOOLEAN :
          /\ StoreCall(ok)
          /\ ops' = Append(ops, Op("read", "IN", Cur, ok))
          /\ IF ~ok
             THEN idx' = idx + 1 /\ pc' = pc            \* raw is None: continue
             ELSE IF StageKey(stage, Cur, CurFile.content) \in ledger
             THEN idx' = idx + 1 /\ pc' = pc            \* key in done_keys: continue
             ELSE idx' = idx /\ pc' = "m_transform"
    /\ UNCHANGED <<cfgVars, storeVars, run, files, ledger, processed, audit, rc,
                   worked, hist, uploads>>
    /\ UNCHANGED loaded
    /\ UNCHANGED otherIn
    /\ UNCHANGED logVars

\* process_monthly_workbook / json.loads + _call_openai_overview / markdown
M_Transform ==
    /\ pc = "m_transform"
    /\ \E ok \in BOOLEAN :
          /\ TransformCall(ok)
          /\ ops' = Append(ops, Op("transform", "MEM", Cur, ok))
          /\ IF ok THEN pc' = "m_write" /\ rc' = rc
                   ELSE EndRun("exception")
    /\ worked' = worked \cup {Work(Cur, StageKey(stage, Cur, CurFile.content), CurFile)}
    /\ UNCHANGED <<cfgVars, storeVars, run, files, idx, ledger, processed, audit,
                   hist, uploads>>
    /\ UNCHANGED loaded
    /\ UNCHANGED otherIn
    /\ UNCHANGED logVars

\* mutant: a failed write is swallowed and the loop goes on to the move
M_Write_Swallow ==
    /\ pc = "m_write"
    /\ \E ok \in BOOLEAN :
          /\ StoreCall(ok)
          /\ ops' = Append(ops, Op("write", MOutDir, Cur, ok))
          /\ outDir' = IF ok THEN outDir \cup {Artifact(MOutDir, Cur, StageKey(stage, Cur, CurFile.content), CurFile)}
                             ELSE outDir
    /\ pc' = "m_move"
    /\ otherIn' = otherIn
    /\ UNCHANGED logVars
    /\ UNCHANGED <<cfgVars, inDir, doneDir, stateDoc, nextRev, run, files, idx,
                   ledger, loaded, processed, audit, rc, worked, hist, uploads>>

\* dbx.write_bytes(out_path, ..., overwrite=True)
M_Write ==
    /\ pc = "m_write"
    /\ \E ok \in BOOLEAN :
          /\ StoreCall(ok)
          /\ ops' = Append(ops, Op("write", MOutDir, Cur, ok))
          /\ IF ok
             THEN /\ outDir' = outDir \cup {Artifact(MOutDir, Cur, StageKey(stage, Cur, CurFile.content), CurFile)}
                  /\ otherIn' = Forwarded(otherIn, Cur)
                  /\ pc' = "m_move" /\ rc' = rc
             ELSE /\ EndRun("exception")
                  /\ outDir' = outDir /\ otherIn' = otherIn
    /\ UNCHANGED <<cfgVars, inDir, doneDir, stateDoc, nextRev, run, files, idx,
                   ledger, processed, audit, worked, hist, uploads>>
    /\ UNCHANGED loaded
    /\ UNCHANGED logVars

\* mutant: the original is moved again after the output was written elsewhere first
M_Move_BeforeWrite ==
    /\ pc \in {"m_write", "m_move"}
    /\ ops' = Append(ops, Op("move", "DONE", Cur, TRUE))
    /\ inDir' = [inDir EXCEPT ![Cur] = NoFile]
    /\ doneDir' = Archive(doneDir, MDoneName(Cur, CurFile), CurFile)
    /\ ledger' = ledger \cup {StageKey(stage, Cur, CurFile.content)}
    /\ processed' = processed + 1
    /\ idx' = idx + 1
    /\ pc' = "m_read"
    /\ UNCHANGED <<cfgVars, outDir, stateDoc, nextRev, run, files, audit, rc, worked,
                   hist, uploads, faults, loaded>>
    /\ UNCHANGED otherIn
    /\ UNCHANGED logVars

\* mutant: a failed move is tried again
M_Move_Retry ==
    /\ pc = "m_move"
    /\ \E ok \in BOOLEAN :
          /\ StoreCall(ok)
          /\ ops' = Append(ops, Op("move", "DONE", Cur, ok))
          /\ IF ok
             THEN /\ inDir' = [inDir EXCEPT ![Cur] = NoFile]
                  /\ doneDir' = Archive(doneDir, MDoneName(Cur, CurFile), CurFile)
                  /\ ledger' = ledger \cup {StageKey(stage, Cur, CurFile.content)}
                  /\ processed' = processed + 1
                  /\ idx' = idx + 1
                  /\ pc' = "m_read" /\ rc' = rc
             ELSE /\ pc' = "m_move" /\ rc' = rc
                  /\ UNCHANGED <<inDir, doneDir, ledger, processed, idx>>
    /\ UNCHANGED <<cfgVars, outDir, stateDoc, nextRev, run, files, audit, worked, hist,
                   uploads>>
    /\ UNCHANGED loaded
    /\ UNCHANGED otherIn
    /\ UNCHANGED logVars

\* _move_to_done(dbx, path, done); done_keys.add(key); processed += 1
M_Move ==
    /\ pc = "m_move"
    /\ \E ok \in BOOLEAN :
          /\ StoreCall(ok)
          /\ ops' = Append(ops, Op("move", "DONE", Cur, ok))
          /\ IF ok
             THEN /\ inDir' = [inDir EXCEPT ![Cur] = NoFile]
                  /\ doneDir' = Archive(doneDir, MDoneName(Cur, CurFile), CurFile)
                  /\ ledger' = ledger \cup {StageKey(stage, Cur, CurFile.content)}
                  /\ processed' = processed + 1
                  /\ idx' = idx + 1
                  /\ pc' = "m_read" /\ rc' = rc
             ELSE /\ EndRun("exception")
                  /\ UNCHANGED <<inDir, doneDir, ledger, processed, idx>>
    /\ UNCHANGED <<cfgVars, outDir, stateDoc, nextRev, run, files, audit, worked, hist,
                   uploads>>
    /\ UNCHANGED loaded
    /\ UNCHANGED otherIn
    /\ UNCHANGED logVars

\* mutant: the save writes only the keys marked in this run
M_Save_OnlyNew ==
    /\ pc = "m_save" \/ (pc = "m_read" /\ idx > MLoopBound)
    /\ \E ok \in BOOLEAN :
          /\ StoreCall(ok)
          /\ ops' = Append(ops, Op("write", "STATE", 0, ok))
          /\ IF ok
             THEN stateDoc' = SavedDoc(ledger \ loaded) /\ EndRun("0")
             ELSE stateDoc' = stateDoc /\ EndRun("exception")
    /\ UNCHANGED <<cfgVars, inDir, outDir, doneDir, nextRev, run, files, idx, ledger,
                   processed, audit, worked, hist, uploads>>
    /\ UNCHANGED loaded
    /\ UNCHANGED otherIn
    /\ UNCHANGED logVars

\* state["done"] = sorted(done_keys); return processed; save_state(dbx, path, state)
M_Save ==
    /\ pc = "m_save" \/ (pc = "m_read" /\ idx > MLoopBound)
    /\ \E ok \in BOOLEAN :
          /\ StoreCall(ok)
          /\ ops' = Append(ops, Op("write", "STATE", 0, ok))
          /\ IF ok
             THEN stateDoc' = SavedDoc(ledger) /\ EndRun("0")
             ELSE stateDoc' = stateDoc /\ EndRun("exception")
    /\ UNCHANGED <<cfgVars, inDir, outDir, doneDir, nextRev, run, files, idx, ledger,
                   processed, audit, worked, hist, uploads>>
    /\ UNCHANGED loaded
    /\ UNCHANGED otherIn
    /\ UNCHANGED logVars

\* ---------------------------------------------------------------- monthly_main + stage00
\* DropboxIO.from_env: raises without credentials, and when _sanity_check fails
DropboxIO_from_env(c) == IF c = "ok" THEN "client" ELSE "raise"

\* DropboxIO(**kwargs): __init__ takes the SDK client only, so these calls raise
DropboxIO_ctor(c) == "raise"

\* make_dbx_from_env: missing env -> raise; from_env; constructors; raw SDK client
make_dbx_from_env(c) ==
    IF c = "missing" THEN "raise"
    ELSE IF DropboxIO_from_env(c) # "raise" THEN DropboxIO_from_env(c)
    ELSE IF DropboxIO_ctor(c) # "raise" THEN DropboxIO_ctor(c)
    ELSE "client"                      \* dropbox.Dropbox(...): built without any check

\* main: run_start; dbx = make_dbx_from_env(), on failure "fatal" and return 1
D_Start ==
    /\ pc = "d_start"
    /\ IF make_dbx_from_env(creds) = "raise"
       THEN /\ audit' = audit \o <<Ev("run_start", 0), Ev("fatal", 0)>>
            /\ EndRun("1")
       ELSE /\ audit' = Append(audit, Ev("run_start", 0))
            /\ pc' = "d_load" /\ rc' = rc
    /\ UNCHANGED <<cfgVars, storeVars, run, files, idx, ledger, processed, ops,
                   worked, hist, uploads, faults>>
    /\ UNCHANGED loaded
    /\ UNCHANGED otherIn
    /\ UNCHANGED logVars

\* _candidate_module_names(stage): the packages searched for stage{NN}
CandidatePkgs == <<"src", "src.stages", "src.monthly", "src.monthly_stages",
                   "src.pipeline", "src.pipeline_stages">>
_candidate_module_names(s) == [i \in 1..Len(CandidatePkgs) |-> <<CandidatePkgs[i], s>>]

\* the stage modules of the repository: src/stages/stage00.py
Importable(name) == name = <<"src.stages", "00">>

\* mutant: the first candidate is returned without importing it
import_stage_module_First(s) ==
    [mod |-> _candidate_module_names(s)[1], tried |-> SubSeq(_candidate_module_names(s), 1, 1)]

\* import_stage_module(stage): (module or None, tried names)
import_stage_module(s) ==
    LET c == _candidate_module_names(s)
        hit == {i \in DOMAIN c : Importable(c[i])}
    IN IF hit = {} THEN [mod |-> "none", tried |-> c]
       ELSE LET k == CHOOSE i \in hit : \A j \in hit : i <= j
            IN [mod |-> c[k], tried |-> SubSeq(c, 1, k)]

\* the stage module of the run was found
ModuleFound == import_stage_module(stage).mod # "none"

\* main: if paths.get("state"): state = StateStore.load(dbx, paths["state"]);
\* mod = import_stage_module(stage); when found: stage_start
D_Load ==
    /\ pc = "d_load"
    /\ IF statePath
       THEN \E ok \in BOOLEAN :
              /\ StoreCall(ok)
              /\ ledger' = StateStoreLoad(stateDoc, ok).keys
              /\ loaded' = StateStoreLoad(stateDoc, ok).keys
              /\ ops' = Append(ops, Op("read", "STATE", 0, ok))
       ELSE UNCHANGED <<ledger, loaded, ops, faults>>      \* state = None
    /\ IF ModuleFound
       THEN /\ audit' = Append(audit, Ev("stage_start", 0))
            /\ pc' = "s_precheck"
       ELSE /\ audit' = audit
            /\ pc' = "d_nomodule"
    /\ UNCHANGED <<cfgVars, storeVars, run, files, idx, processed, rc, worked, hist, uploads>>
    /\ UNCHANGED otherIn
    /\ UNCHANGED logVars

\* mutant: the return value of the stage is dropped
StageReturns_Zero(r) == pc' = "d_end" /\ rc' = "0"

\* the stage callable returned r / raised: main goes on to stage_end and the finally block
StageReturns(r) == pc' = "d_end" /\ rc' = r

\* main: ret = fn(dbx=, stage=, paths=, state=, run_id=, config=) raises before the
\* stage's first statement (run declares a keyword-only 'audit' the call does not
\* pass): except Exception -> rc = 1, stage_error
D_StageRaises ==
    /\ pc = "s_precheck"
    /\ audit' = Append(audit, Ev("stage_error", 0))
    /\ StageReturns("1")
    /\ UNCHANGED <<cfgVars, storeVars, run, files, idx, ledger, loaded, processed, ops,
                   worked, hist, uploads, faults>>
    /\ UNCHANGED otherIn
    /\ UNCHANGED logVars

\* audit.log(event="stage_end", ..., return_code=rc, system_exit=True)
StageExit(code) == [event |-> "stage_end", file |-> 0, code |-> code, system_exit |-> TRUE]

\* mutant: SystemExit leaves main at once, without the finally block
D_StageExits_NoFinally ==
    /\ pc = "s_precheck"
    /\ \E code \in {"0", "1"} :
          /\ audit' = Append(audit, StageExit(code))
          /\ EndRun(code)
    /\ UNCHANGED <<cfgVars, storeVars, run, files, idx, ledger, loaded, processed, ops,
                   worked, hist, uploads, faults>>
    /\ UNCHANGED otherIn
    /\ UNCHANGED logVars

\* main: the stage callable raises SystemExit(code): except SystemExit -> rc from
\* the code, stage_end with system_exit, raise (after the finally block)
D_StageExits ==
    /\ pc = "s_precheck"
    /\ \E code \in {"0", "1"} :
          /\ audit' = Append(audit, StageExit(code))
          /\ pc' = "d_end" /\ rc' = code
    /\ UNCHANGED <<cfgVars, storeVars, run, files, idx, ledger, loaded, processed, ops,
                   worked, hist, uploads, faults>>
    /\ UNCHANGED otherIn
    /\ UNCHANGED logVars

\* run, entered with the keyword arguments it declares:
\* required paths, safe_mkdir(out), safe_mkdir(done)
S_Precheck ==
    /\ pc = "s_precheck"
    /\ IF ~pathsSet
       THEN /\ audit' = Append(audit, Ev("error", 0))
            /\ StageReturns("2")
            /\ UNCHANGED <<ops, faults>>
       ELSE /\ \E ok1 \in BOOLEAN :
                 /\ StoreCall(ok1)
                 /\ ops' = ops \o <<Op("mkdir", "OUT", 0, ok1), Op("mkdir", "DONE", 0, ok1)>>
            /\ pc' = "s_marker"
            /\ UNCHANGED <<audit, rc>>
    /\ UNCHANGED <<cfgVars, storeVars, run, files, idx, ledger, processed, worked, hist, uploads>>
    /\ UNCHANGED loaded
    /\ UNCHANGED otherIn
    /\ UNCHANGED logVars

Marker == [dir |-> "OUT", name |-> 0, key |-> <<"marker", 0, 0>>, content |-> <<0, 0>>, run |-> run]

\* run: the marker upload into OUT; on failure "warn" and return 1
S_Marker ==
    /\ pc = "s_marker"
    /\ \E ok \in BOOLEAN :
          /\ StoreCall(ok)
          /\ ops' = Append(ops, Op("write", "OUT", 0, ok))
          /\ IF ok
             THEN /\ outDir' = outDir \cup {Marker}
                  /\ audit' = Append(audit, Ev("stage00_marker_written", 0))
                  /\ pc' = "s_list" /\ rc' = rc
             ELSE /\ outDir' = outDir
                  /\ audit' = Append(audit, Ev("warn", 0))
                  /\ StageReturns("1")
    /\ UNCHANGED <<cfgVars, inDir, doneDir, stateDoc, nextRev, run, files, idx, ledger,
                   processed, worked, hist, uploads>>
    /\ UNCHANGED loaded
    /\ UNCHANGED otherIn
    /\ UNCHANGED logVars

\* files = files[:max_n]
Truncate(fs, n) == SubSeq(fs, 1, Min(Len(fs), n))

\* run: list_files(dbx, in_path); ApiError -> "error", return 1; other errors propagate
S_List ==
    /\ pc = "s_list"
    /\ \E ok \in BOOLEAN :
          /\ StoreCall(ok)
          /\ ops' = Append(ops, Op("list", "IN", 0, ok))
          /\ IF ok
             THEN /\ files' = Truncate(Listing(inDir), cap)
                  /\ idx' = 1
                  /\ pc' = "s_copy" /\ rc' = rc
                  /\ audit' = audit
             ELSE /\ \E e \in {"error", "stage_error"} : audit' = Append(audit, Ev(e, 0))
                  /\ StageReturns("1")
                  /\ UNCHANGED <<files, idx>>
    /\ UNCHANGED <<cfgVars, storeVars, run, ledger, processed, worked, hist, uploads>>
    /\ UNCHANGED loaded
    /\ UNCHANGED otherIn
    /\ UNCHANGED logVars

\* state_store.stable_key(path, content_hash): f"{path}|sha256:{hash}", or the path alone
NoHash == <<0, 0>>
stable_key(n, h) == IF h # NoHash THEN <<"path", n, h>> ELSE <<"path", n, NoHash>>

\* the key of a stage00.run file: the path, no content hash is computed
PathKey(n) == stable_key(n, NoHash)

\* mutant: a failed copy is logged and the loop goes on with the next file
S_Copy_Continue ==
    /\ pc = "s_copy"
    /\ idx <= Len(files)
    /\ \E ok \in BOOLEAN :
          /\ StoreCall(ok)
          /\ ops' = Append(ops, Op("copy", "OUT", Cur, ok))
          /\ IF ok
             THEN /\ outDir' = outDir \cup {Artifact("OUT", Cur, PathKey(Cur), CurFile)}
                  /\ pc' = "s_move" /\ idx' = idx
                  /\ audit' = audit
             ELSE /\ outDir' = outDir
                  /\ audit' = Append(audit, Ev("stage00_error", Cur))
                  /\ pc' = "s_copy" /\ idx' = idx + 1
    /\ worked' = worked \cup {Work(Cur, PathKey(Cur), CurFile)}
    /\ UNCHANGED <<cfgVars, inDir, doneDir, stateDoc, nextRev, run, files, ledger,
                   loaded, processed, rc, hist, uploads>>
    /\ UNCHANGED otherIn
    /\ UNCHANGED logVars

\* run: dbx.files_copy_v2(src, out_path, autorename=True)
S_Copy ==
    /\ pc = "s_copy"
    /\ idx <= Len(files)
    /\ \E ok \in BOOLEAN :
          /\ StoreCall(ok)
          /\ ops' = Append(ops, Op("copy", "OUT", Cur, ok))
          /\ IF ok
             THEN /\ outDir' = outDir \cup {Artifact("OUT", Cur, PathKey(Cur), CurFile)}
                  /\ pc' = "s_move" /\ rc' = rc
                  /\ audit' = audit
             ELSE /\ outDir' = outDir
                  /\ audit' = Append(audit, Ev("stage00_error", Cur))
                  /\ StageReturns("1")
    /\ worked' = worked \cup {Work(Cur, PathKey(Cur), CurFile)}
    /\ UNCHANGED <<cfgVars, inDir, doneDir, stateDoc, nextRev, run, files, idx, ledger,
                   processed, hist, uploads>>
    /\ UNCHANGED loaded
    /\ UNCHANGED otherIn
    /\ UNCHANGED logVars

\* done_name = f"{base}__rev-{rev}__{utc_stamp()}{ext}"
SDoneName(n, f) == <<n, f.rev, run>>

\* run: dbx.files_move_v2(src, done_path, autorename=True); processed += 1
S_Move ==
    /\ pc = "s_move"
    /\ \E ok \in BOOLEAN :
          /\ StoreCall(ok)
          /\ ops' = Append(ops, Op("move", "DONE", Cur, ok))
          /\ IF ok
             THEN /\ inDir' = [inDir EXCEPT ![Cur] = NoFile]
                  /\ doneDir' = doneDir \cup {[fname |-> SDoneName(Cur, CurFile),
                                               content |-> CurFile.content]}
                  /\ processed' = processed + 1
                  /\ audit' = Append(audit, Ev("stage00_processed", Cur))
                  /\ idx' = idx + 1
                  /\ pc' = "s_copy" /\ rc' = rc
             ELSE /\ audit' = Append(audit, Ev("stage00_error", Cur))
                  /\ StageReturns("1")
                  /\ UNCHANGED <<inDir, doneDir, processed, idx>>
    /\ UNCHANGED <<cfgVars, outDir, stateDoc, nextRev, run, files, ledger, worked, hist, uploads>>
    /\ UNCHANGED loaded
    /\ UNCHANGED otherIn
    /\ UNCHANGED logVars

\* run: after the loop, stage00_summary and return 0
S_Summary ==
    /\ pc = "s_copy"
    /\ idx > Len(files)
    /\ audit' = Append(audit, Ev("stage00_summary", 0))
    /\ StageReturns("0")
    /\ UNCHANGED <<cfgVars, storeVars, run, files, idx, ledger, processed, ops,
                   worked, hist, uploads, faults>>
    /\ UNCHANGED loaded
    /\ UNCHANGED otherIn
    /\ UNCHANGED logVars

\* audit.log(event="stage_end", stage=stage, ok=(rc == 0), return_code=rc, ...)
StageEnd(code) == [event |-> "stage_end", file |-> 0, code |-> code]

\* the try block already logged how the stage ended (stage_error, or stage_end of
\* a SystemExit); otherwise stage_end follows the return
EndEvents == IF audit[Len(audit)].event \in {"stage_error", "stage_end"} THEN <<>>
             ELSE <<StageEnd(rc)>>

\* mutant: the state is saved in the try block, so not after the stage raised
D_SaveState_SkipOnError ==
    /\ pc = "d_end"
    /\ IF ~statePath \/ audit[Len(audit)].event \in {"stage_error", "stage_end"}
       THEN /\ audit' = audit \o EndEvents
            /\ UNCHANGED <<ops, stateDoc, faults>>
       ELSE \E ok \in BOOLEAN :
              /\ StoreCall(ok)
              /\ ops' = Append(ops, Op("write", "STATE", 0, ok))
              /\ stateDoc' = IF ok THEN SavedDoc(ledger) ELSE stateDoc
              /\ audit' = audit \o EndEvents
                          \o <<Ev(IF ok THEN "state_saved" ELSE "state_save_failed", 0)>>
    /\ pc' = "d_audit"
    /\ UNCHANGED <<cfgVars, inDir, outDir, doneDir, nextRev, run, files, idx, ledger,
                   loaded, processed, rc, worked, hist, uploads>>
    /\ UNCHANGED otherIn
    /\ UNCHANGED logVars

\* mutant: a failed state save turns the run into a failed run
D_SaveState_Escalate ==
    /\ pc = "d_end"
    /\ IF ~statePath
       THEN /\ audit' = audit \o EndEvents
            /\ UNCHANGED <<ops, stateDoc, faults, rc>>
       ELSE \E ok \in BOOLEAN :
              /\ StoreCall(ok)
              /\ ops' = Append(ops, Op("write", "STATE", 0, ok))
              /\ stateDoc' = IF ok THEN SavedDoc(ledger) ELSE stateDoc
              /\ audit' = audit \o EndEvents
                          \o <<Ev(IF ok THEN "state_saved" ELSE "state_save_failed", 0)>>
              /\ rc' = IF ok THEN rc ELSE "1"
    /\ pc' = "d_audit"
    /\ UNCHANGED <<cfgVars, inDir, outDir, doneDir, nextRev, run, files, idx, ledger,
                   loaded, processed, worked, hist, uploads>>
    /\ UNCHANGED otherIn
    /\ UNCHANGED logVars

\* main: stage_end; finally: if state is not None: state.save(dbx), logged as
\* state_saved ok / not ok
D_SaveState ==
    /\ pc = "d_end"
    /\ IF ~statePath
       THEN /\ audit' = audit \o EndEvents
            /\ UNCHANGED <<ops, stateDoc, faults>>
       ELSE \E ok \in BOOLEAN :
              /\ StoreCall(ok)
              /\ ops' = Append(ops, Op("write", "STATE", 0, ok))
              /\ stateDoc' = IF ok THEN SavedDoc(ledger) ELSE stateDoc
              /\ audit' = audit \o EndEvents
                          \o <<Ev(IF ok THEN "state_saved" ELSE "state_save_failed", 0)>>
    /\ pc' = "d_audit"
    /\ UNCHANGED <<cfgVars, inDir, outDir, doneDir, nextRev, run, files, idx, ledger,
                   processed, rc, worked, hist, uploads>>
    /\ UNCHANGED loaded
    /\ UNCHANGED otherIn
    /\ UNCHANGED logVars

\* out_path = f"{logs_dir}/{day}/run_{run_id}.jsonl"
RunLogPath(rid) == <<"day", "run", "id", rid>>

\* print("[warn] write_audit_record failed; fallback to stdout")
Warn == [warn |-> "write_audit_record failed; fallback to stdout"]

\* mutant: nothing is printed when the audit record cannot be written
AuditFallback_Silent(out, events) == out

\* main: if outp is None: the warning, then print(safe_json(e)) for e in audit.events
AuditFallback(out, events) == out \o <<Warn>> \o safe_json(events)

\* write_audit_record(dbx, logs_dir, run_id, audit): the path written, or None;
\* and the fallback of main
WriteAudit(ok) ==
    /\ logs' = IF ok THEN WriteLog(logs, RunLogPath(run), to_jsonl(audit)) ELSE logs
    /\ stdout' = IF ok THEN stdout ELSE AuditFallback(stdout, audit)

\* main: write_audit_record (stdout when it fails); return rc, or re-raise SystemExit
D_WriteAudit ==
    /\ pc = "d_audit"
    /\ \E ok \in BOOLEAN :
          /\ StoreCall(ok)
          /\ ops' = Append(ops, LogOp(RunLogPath(run), ok))
          /\ WriteAudit(ok)
    /\ EndRun(rc)
    /\ UNCHANGED <<cfgVars, storeVars, run, files, idx, ledger, processed, audit,
                   worked, hist, uploads>>
    /\ UNCHANGED loaded
    /\ UNCHANGED otherIn
    /\ UNCHANGED <<logger, clock>>

\* audit.log(event="stage_dispatch", stage=stage, ok=False, tried=tried, ...)
StageDispatch(tried) == [event |-> "stage_dispatch", file |-> 0, ok |-> FALSE, tried |-> tried]

\* main: mod is None -> stage_dispatch, write_audit_record (stdout when it fails),
\* return 0
D_NoModule ==
    /\ pc = "d_nomodule"
    /\ \E ok \in BOOLEAN :
          /\ StoreCall(ok)
          /\ ops' = Append(ops, LogOp(RunLogPath(run), ok))
          /\ audit' = Append(audit, StageDispatch(import_stage_module(stage).tried))
          /\ logs' = IF ok THEN WriteLog(logs, RunLogPath(run),
                                        to_jsonl(Append(audit, StageDispatch(import_stage_module(stage).tried))))
                     ELSE logs
          /\ stdout' = IF ok THEN stdout
                       ELSE AuditFallback(stdout, Append(audit, StageDispatch(import_stage_module(stage).tried)))
    /\ EndRun("0")
    /\ UNCHANGED <<cfgVars, storeVars, run, files, idx, ledger, loaded, processed,
                   worked, hist, uploads>>
    /\ UNCHANGED otherIn
    /\ UNCHANGED <<logger, clock>>

\* ---------------------------------------------------------------- main.py (inbox bot)
\* name_l.endswith(".txt") or name_l.endswith(".md"); the last name has another extension
IsText(n) == n < NumNames

InboxKey(n, f) == <<"in", n, f.rev>>

\* state.processed[f.path] = f.rev
MarkRev(l, n, f) == {k \in l : k[2] # n} \cup {InboxKey(n, f)}

\* main: state_text = download_text(state_path) or None; state = load_state(state_text)
I_Load ==
    /\ pc = "i_load"
    /\ \E ok \in BOOLEAN :
          /\ StoreCall(ok)
          /\ ledger' = load_state(stateDoc, ok)
          /\ loaded' = load_state(stateDoc, ok)
          /\ ops' = Append(ops, Op("read", "STATE", 0, ok))
    /\ pc' = "i_list"
    /\ UNCHANGED <<cfgVars, storeVars, run, files, idx, processed, audit, rc,
                   worked, hist, uploads>>
    /\ UNCHANGED otherIn
    /\ UNCHANGED logVars

\* main: all_files = list_input_files(inbox); a failure leaves main through finally
I_List ==
    /\ pc = "i_list"
    /\ \E ok \in BOOLEAN :
          /\ StoreCall(ok)
          /\ ops' = Append(ops, Op("list", "IN", 0, ok))
          /\ IF ok
             THEN /\ files' = Listing(inDir)
                  /\ idx' = 1
                  /\ audit' = Append(audit, Ev("LIST", 0))
                  /\ pc' = "i_file" /\ rc' = rc
             ELSE /\ EndRun("exception")
                  /\ UNCHANGED <<files, idx, audit>>
    /\ UNCHANGED <<cfgVars, storeVars, run, ledger, processed, worked, hist, uploads>>
    /\ UNCHANGED loaded
    /\ UNCHANGED otherIn
    /\ UNCHANGED logVars

\* mutant: the loop without its cap
ILoopGoes_NoCap == idx <= Len(files)

\* for f in all_files: if processed_count >= max_files_per_run: break
ILoopGoes == idx <= Len(files) /\ processed < cap

\* main: per file, already_processed skip, unsupported extension, download_text
I_File ==
    /\ pc = "i_file"
    /\ ILoopGoes
    /\ IF InboxKey(Cur, CurFile) \in ledger
       THEN /\ audit' = Append(audit, Ev("SKIP", Cur))
            /\ idx' = idx + 1
            /\ UNCHANGED <<pc, ledger, processed, ops, faults>>
       ELSE IF ~IsText(Cur)
       THEN /\ audit' = Append(audit, Ev("SKIP", Cur))
            /\ ledger' = MarkRev(ledger, Cur, CurFile)
            /\ processed' = processed + 1
            /\ idx' = idx + 1
            /\ UNCHANGED <<pc, ops, faults>>
       ELSE \E ok \in BOOLEAN :
            /\ StoreCall(ok)
            /\ ops' = Append(ops, Op("read", "IN", Cur, ok))
            /\ IF ok
               THEN pc' = "i_transform" /\ idx' = idx /\ audit' = audit
               ELSE /\ pc' = pc /\ idx' = idx + 1
                    /\ audit' = audit \o <<Ev("ERROR", Cur), Ev("FAIL", Cur)>>
            /\ UNCHANGED <<ledger, processed>>
    /\ UNCHANGED <<cfgVars, storeVars, run, files, rc, worked, hist, uploads>>
    /\ UNCHANGED loaded
    /\ UNCHANGED otherIn
    /\ UNCHANGED logVars

\* main: run_structured_text, on failure run_fallback_text; if that raises too: ERROR, continue
I_Transform ==
    /\ pc = "i_transform"
    /\ \E ok \in BOOLEAN :
          /\ TransformCall(ok)
          /\ ops' = Append(ops, Op("transform", "MEM", Cur, ok))
          /\ IF ok
             THEN pc' = "i_write" /\ idx' = idx
                  /\ audit' = Append(audit, Ev("FILE", Cur))
             ELSE pc' = "i_file" /\ idx' = idx + 1
                  /\ audit' = audit \o <<Ev("FILE", Cur), Ev("ERROR", Cur), Ev("FAIL", Cur)>>
    /\ worked' = worked \cup {Work(Cur, InboxKey(Cur, CurFile), CurFile)}
    /\ UNCHANGED <<cfgVars, storeVars, run, files, ledger, processed, rc, hist, uploads>>
    /\ UNCHANGED loaded
    /\ UNCHANGED otherIn
    /\ UNCHANGED logVars

\* mutant: the file is marked processed before its output is uploaded
I_Write_MarkFirst ==
    /\ pc = "i_write"
    /\ \E ok \in BOOLEAN :
          /\ StoreCall(ok)
          /\ ops' = Append(ops, Op("write", "OUT", Cur, ok))
          /\ ledger' = MarkRev(ledger, Cur, CurFile)
          /\ IF ok
             THEN /\ outDir' = outDir \cup {Artifact("OUT", Cur, InboxKey(Cur, CurFile), CurFile)}
                  /\ processed' = processed + 1
                  /\ audit' = Append(audit, Ev("OK", Cur))
             ELSE /\ audit' = audit \o <<Ev("ERROR", Cur), Ev("FAIL", Cur)>>
                  /\ UNCHANGED <<outDir, processed>>
    /\ idx' = idx + 1
    /\ pc' = "i_file"
    /\ UNCHANGED <<cfgVars, inDir, doneDir, stateDoc, nextRev, run, files, rc,
                   loaded, worked, hist, uploads>>
    /\ UNCHANGED otherIn
    /\ UNCHANGED logVars

\* main: upload_text(out_path, out_text); state.processed[f.path] = f.rev; processed_count += 1
I_Write ==
    /\ pc = "i_write"
    /\ \E ok \in BOOLEAN :
          /\ StoreCall(ok)
          /\ ops' = Append(ops, Op("write", "OUT", Cur, ok))
          /\ IF ok
             THEN /\ outDir' = outDir \cup {Artifact("OUT", Cur, InboxKey(Cur, CurFile), CurFile)}
                  /\ ledger' = MarkRev(ledger, Cur, CurFile)
                  /\ processed' = processed + 1
                  /\ audit' = Append(audit, Ev("OK", Cur))
             ELSE /\ audit' = audit \o <<Ev("ERROR", Cur), Ev("FAIL", Cur)>>
                  /\ UNCHANGED <<outDir, ledger, processed>>
    /\ idx' = idx + 1
    /\ pc' = "i_file"
    /\ UNCHANGED <<cfgVars, inDir, doneDir, stateDoc, nextRev, run, files, rc,
                   worked, hist, uploads>>
    /\ UNCHANGED loaded
    /\ UNCHANGED otherIn
    /\ UNCHANGED logVars

\* main: if processed_any: upload_text(state_path, dump_state(state)); END
I_Save ==
    /\ pc = "i_file"
    /\ ~ILoopGoes
    /\ IF processed > 0
       THEN \E ok \in BOOLEAN :
            /\ StoreCall(ok)
            /\ ops' = Append(ops, Op("write", "STATE", 0, ok))
            /\ IF ok
               THEN /\ stateDoc' = SavedDoc(ledger)
                    /\ audit' = Append(audit, Ev("END", 0))
                    /\ EndRun("0")
               ELSE /\ stateDoc' = stateDoc
                    /\ audit' = audit
                    /\ EndRun("exception")
       ELSE /\ audit' = Append(audit, Ev("END", 0))
            /\ EndRun("0")
            /\ UNCHANGED <<stateDoc, ops, faults>>
    /\ UNCHANGED <<cfgVars, inDir, outDir, doneDir, nextRev, run, files, idx, ledger,
                   processed, worked, hist, uploads>>
    /\ UNCHANGED loaded
    /\ UNCHANGED otherIn
    /\ UNCHANGED logVars

\* ---------------------------------------------------------------- specification
\* the other stages are all idle, or each of them has one pending file
OtherInits(st) == {[s \in AllStages |-> {}],
                   [s \in AllStages |-> IF s = st THEN {} ELSE {1}]}

InitFiles == {[n \in Names |-> IF n <= k THEN [content |-> <<1, 1>>, rev |-> n] ELSE NoFile]
                 : k \in 0..NumNames}

Init ==
    /\ prog \in Progs
    /\ stage \in (IF prog = "multistage" THEN AllStages
                  ELSE IF prog = "stage00" THEN DStages ELSE {"00"})
    /\ cap \in 1..MaxCap
    /\ creds \in (IF prog = "stage00" THEN {"ok", "missing", "invalid"} ELSE {"ok"})
    /\ pathsSet \in (IF prog = "stage00" THEN BOOLEAN ELSE {TRUE})
    /\ statePath \in (IF prog = "stage00" THEN BOOLEAN ELSE {TRUE})
    /\ max_output_tokens = DefaultTokens
    /\ inDir \in InitFiles
    /\ outDir = {}
    /\ doneDir = {}
    /\ stateDoc \in {MissingDoc, BadJsonDoc, SavedDoc({})}
    /\ nextRev = NumNames + 1
    /\ run = 0
    /\ pc = "idle"
    /\ files = <<>>
    /\ idx = 0
    /\ ledger = {}
    /\ loaded = {}
    /\ processed = 0
    /\ audit = <<>>
    /\ ops = <<>>
    /\ rc = "none"
    /\ worked = {}
    /\ hist = [loads |-> TRUE, saves |-> TRUE, ups |-> 0]
    /\ otherIn \in (IF prog = "multistage" THEN OtherInits(stage)
                                          ELSE {[s \in AllStages |-> {}]})
    /\ logs = {} /\ stdout = <<>> /\ logger = "none" /\ clock = 0
    /\ uploads = 0
    /\ faults = 0

Next ==
    \/ StartRun \/ Upload \/ Kill
    \/ M_Load \/ M_NoStage \/ M_List \/ M_Read \/ M_Transform \/ M_Write \/ M_Move \/ M_Save
    \/ D_Start \/ D_Load \/ D_NoModule \/ D_StageRaises \/ D_StageExits \/ S_Precheck \/ S_Marker \/ S_List \/ S_Copy \/ S_Move
    \/ S_Summary \/ D_SaveState \/ D_WriteAudit
    \/ I_Load \/ I_List \/ I_File \/ I_Transform \/ I_Write \/ I_Save

Spec == Init /\ [][Next]_vars

\* ---------------------------------------------------------------- the audit sinks alone
\* Audit (monthly_main), AuditLogger (audit_logger), the audit buffer of StateStore
\* (state_store) and JsonlLogger (logger), each driven by any sequence of calls
Loggers == {"Audit", "AuditLogger", "StateStore", "JsonlLogger"}
AuditEvents == {"start", "stop"}
AuditPcs == {"a_ready", "a_logged", "a_flushed"}

InitAudit ==
    /\ prog = "stage00" /\ stage = "00" /\ cap = 1 /\ creds = "ok" /\ pathsSet = TRUE
    /\ statePath = TRUE /\ max_output_tokens = DefaultTokens
    /\ inDir = [n \in Names |-> NoFile]
    /\ outDir = {} /\ doneDir = {}
    /\ stateDoc = MissingDoc
    /\ nextRev = 1 /\ run = 1
    /\ pc = "a_ready"
    /\ files = <<>> /\ idx = 0
    /\ ledger = {} /\ loaded = {}
    /\ processed = 0 /\ ops = <<>>
    /\ rc = "none"
    /\ worked = {}
    /\ hist = [loads |-> TRUE, saves |-> TRUE, ups |-> 0]
    /\ otherIn = [s \in AllStages |-> {}]
    /\ logger \in Loggers
    \* main logs run_start right after Audit(events=[]); the other buffers start empty
    /\ audit = IF logger = "Audit" THEN <<Ev("run_start", 0)>> ELSE <<>>
    /\ logs = {} /\ stdout = <<>> /\ clock = 0
    /\ uploads = 0 /\ faults = 0

AuditFrame == UNCHANGED <<cfgVars, storeVars, run, files, idx, ledger, loaded, processed,
                          worked, hist, otherIn, uploads, logger>>

\* self.events.append(...) / self.buffer.append(rec) / self._audit.append(rec)
Record ==
    /\ pc \in AuditPcs
    /\ Len(audit) < MaxEvents
    /\ \E e \in AuditEvents : audit' = Append(audit, Ev(e, 0))
    /\ pc' = "a_logged" /\ rc' = "0"
    /\ AuditFrame
    /\ UNCHANGED <<ops, logs, stdout, clock, faults>>

\* monthly_main Audit.log(**event)
A_Log ==
    /\ logger = "Audit"
    /\ Record

\* audit_logger AuditLogger.event(stage=, event=, ...)
AL_Event ==
    /\ logger = "AuditLogger"
    /\ Record

\* state_store StateStore.audit_event(run_id=, stage=, event=, ...)
SS_AuditEvent ==
    /\ logger = "StateStore"
    /\ Record

\* monthly_main: outp = write_audit_record(...); if outp is None: stdout
A_Write ==
    /\ pc \in AuditPcs /\ logger = "Audit"
    /\ Len(ops) < MaxFlushes
    /\ \E ok \in BOOLEAN :
          /\ StoreCall(ok)
          /\ ops' = Append(ops, LogOp(RunLogPath(run), ok))
          /\ WriteAudit(ok)
    /\ pc' = "a_flushed" /\ rc' = "0"
    /\ AuditFrame
    /\ UNCHANGED <<audit, clock>>

\* path = f"{logs_dir}/monthly_audit_{run_id}.jsonl"
AuditLogPath(rid) == <<"monthly_audit", rid>>

\* AuditLogger.flush has no try: the exception of the write leaves flush
FlushRaises(ok) == IF ok THEN "0" ELSE "exception"

\* audit_logger AuditLogger.flush(dbx)
AL_Flush ==
    /\ pc \in AuditPcs /\ logger = "AuditLogger"
    /\ Len(ops) < MaxFlushes
    /\ \E ok \in BOOLEAN :
          /\ StoreCall(ok)
          /\ ops' = Append(ops, LogOp(AuditLogPath(run), ok))
          /\ logs' = IF ok THEN WriteLog(logs, AuditLogPath(run), to_jsonl(audit)) ELSE logs
          /\ rc' = FlushRaises(ok)
    /\ pc' = "a_flushed"
    /\ AuditFrame
    /\ UNCHANGED <<audit, stdout, clock>>

\* body = "\n".join(lines) + ("\n" if lines else "")
ss_body(events) ==
    Join([i \in 1..Len(events) |-> Json(events[i])])
    \o (IF events # <<>> THEN <<NL>> ELSE <<>>)

\* {"stage": "--", "event": "error", "message": "audit_flush_failed: ..."}
FlushFailed == Ev("error", 0)

\* state_store StateStore.flush_audit_jsonl(dbx, logs_dir, run_id)
SS_Flush ==
    /\ pc \in AuditPcs /\ logger = "StateStore"
    /\ Len(ops) < MaxFlushes
    /\ \E ok \in BOOLEAN :
          /\ StoreCall(ok)
          /\ ops' = Append(ops, LogOp(AuditLogPath(run), ok))
          /\ logs' = IF ok THEN WriteLog(logs, AuditLogPath(run), ss_body(audit)) ELSE logs
          /\ audit' = IF ok THEN audit ELSE Append(audit, FlushFailed)
    /\ pc' = "a_flushed" /\ rc' = "0"
    /\ AuditFrame
    /\ UNCHANGED <<stdout, clock>>

\* ts = _utc_ts()...; path = f"{path_dir}/run_{ts}.jsonl"
JsonlLogPath(ts) == <<"day", "run", "ts", ts>>

\* existing = self.io.download(path), or nothing when the download raises
Existing(p, readOK) ==
    IF readOK /\ \E f \in logs : f.path = p
    THEN (CHOOSE f \in logs : f.path = p).body
    ELSE <<>>

\* logger JsonlLogger.log(obj): ensure_folder twice, download, upload_overwrite;
\* every exception is swallowed
JL_Log ==
    /\ pc \in AuditPcs /\ logger = "JsonlLogger"
    /\ Len(audit) < MaxEvents
    /\ \E e \in AuditEvents, out \in {"ok", "folder", "download", "upload"} :
          /\ out # "ok" => faults < MaxFaults
          /\ faults' = IF out = "ok" THEN faults ELSE faults + 1
          /\ audit' = Append(audit, Ev(e, 0))
          /\ IF out = "folder"
             THEN UNCHANGED <<ops, logs>>
             ELSE /\ ops' = Append(ops, LogOp(JsonlLogPath(clock), out # "upload"))
                  /\ logs' = IF out = "upload" THEN logs
                             ELSE WriteLog(logs, JsonlLogPath(clock),
                                           Existing(JsonlLogPath(clock), out # "download")
                                           \o <<Json(Ev(e, 0)), NL>>)
    /\ pc' = "a_logged" /\ rc' = "0"
    /\ AuditFrame
    /\ UNCHANGED <<stdout, clock>>

\* time.gmtime(): a second passes between two calls
Tick ==
    /\ pc \in AuditPcs
    /\ clock < MaxClock
    /\ clock' = clock + 1
    /\ AuditFrame
    /\ UNCHANGED <<pc, rc, audit, ops, logs, stdout, faults>>

NextAudit ==
    \/ A_Log \/ A_Write
    \/ AL_Event \/ AL_Flush
    \/ SS_AuditEvent \/ SS_Flush
    \/ JL_Log \/ Tick

SpecAudit == InitAudit /\ [][NextAudit]_vars

\* ---------------------------------------------------------------- StateStore.load alone
DocKeys == {StageKey("00", n, <<p, 1>>) : n \in Names, p \in 1..NumPrefix}

\* every document that can sit at STATE_PATH
AllDocs ==
    {MissingDoc, BadJsonDoc}
    \cup {[exists |-> TRUE, json |-> "array", proc |-> "absent", keys |-> {}]}
    \cup {[exists |-> TRUE, json |-> "object", proc |-> p, keys |-> {}] : p \in {"absent", "notmap"}}
    \cup {SavedDoc(K) : K \in SUBSET DocKeys}

InitLoad ==
    /\ prog = "stage00" /\ stage = "00" /\ cap = 1 /\ creds = "ok" /\ pathsSet = TRUE
    /\ statePath = TRUE /\ max_output_tokens = DefaultTokens
    /\ inDir = [n \in Names |-> NoFile]
    /\ outDir = {} /\ doneDir = {}
    /\ stateDoc \in AllDocs
    /\ nextRev = 1 /\ run = 0
    /\ pc = "l_ready"
    /\ files = <<>> /\ idx = 0
    /\ ledger = {} /\ loaded = {}
    /\ processed = 0 /\ audit = <<>> /\ ops = <<>>
    /\ rc = "none"
    /\ worked = {}
    /\ hist = [loads |-> TRUE, saves |-> TRUE, ups |-> 0]
    /\ otherIn = [s \in AllStages |-> {}]
    /\ logs = {} /\ stdout = <<>> /\ logger = "none" /\ clock = 0
    /\ uploads = 0 /\ faults = 0

LoadStep(r, readOK, to) ==
    /\ pc = "l_ready"
    /\ ledger' = r.keys
    /\ loaded' = r.keys
    /\ rc' = IF r.raised THEN "exception" ELSE "0"
    /\ ops' = <<Op("read", "STATE", 0, readOK)>>
    /\ pc' = to
    /\ UNCHANGED <<cfgVars, storeVars, run, files, idx, processed, audit, worked,
                   hist, uploads, faults>>
    /\ UNCHANGED otherIn
    /\ UNCHANGED logVars

\* state_store.StateStore.load(dbx, path) on any document and read outcome
L_StateStoreLoad == \E readOK \in BOOLEAN :
    LoadStep(StateStoreLoad(stateDoc, readOK), readOK, "l_state_store")

\* state.StateStore.load(dbx, path) on any document and read outcome
L_StateLoad == \E readOK \in BOOLEAN :
    LoadStep(StateLoad(stateDoc, readOK), readOK, "l_state")

NextLoad == L_StateStoreLoad \/ L_StateLoad

SpecLoad == InitLoad /\ [][NextLoad]_vars

\* ---------------------------------------------------------------- two runs on one state path
\* The two StateStore classes, each used by two runs that share one state path.
\* A run holds its own instance: it loads, marks keys in memory, and saves.
StoreClasses == {"state", "state_store"}
Racers == {"A", "B"}

\* the keys the two runs can mark
RaceKeys == {StageKey("00", n, <<1, 1>>) : n \in Names}

\* the top-level fields of a state document other than 'processed'
OtherFields == {"done", "errors", "updated_at_utc"}

\* a JSON object with a 'processed' mapping: its keys, the kind of its values
\* ("str" when every value is a string) and the other top-level fields it has
StoreDoc(keys, vals, other) == SavedDoc(keys) @@ [vals |-> vals, other |-> other]

\* state_store.py StateStore._empty(): {"done": [], "errors": [], "processed": {}}
_empty == [keys |-> {}, vals |-> "str", other |-> {"done", "errors"}]

\* the instance a load returns
\* state_store.py: base = _empty(); base.update(d); return cls(path, data=base)
\* state.py: processed = {str(k): str(v) ...}; return cls(dbx, state_path, processed)
StoreLoad(cls, doc, readOK) ==
    IF cls = "state_store"
    THEN IF StateStoreLoadBody(doc, readOK).raised THEN _empty
         ELSE IF doc.json # "object" THEN _empty
         ELSE [keys  |-> StateStoreLoad(doc, readOK).keys,
               vals  |-> IF doc.proc = "map" THEN doc.vals ELSE "str",
               other |-> doc.other \cup _empty.other]
    ELSE [keys |-> StateLoad(doc, readOK).keys, vals |-> "str", other |-> {}]

\* mutant: the save merges the persisted keys with those in memory
StoreSave_Merge(cls, mem, doc) ==
    StoreDoc(mem.keys \cup (IF doc.exists /\ doc.json = "object" THEN doc.keys ELSE {}),
             mem.vals, mem.other)

\* mutant: state.py's save, for both classes
StoreSave_ProcessedOnly(cls, mem, doc) == StoreDoc(mem.keys, "str", {})

\* the document a save writes over the persisted one
\* state_store.py: json.dumps(self.data); state.py: json.dumps({"processed": self.processed})
StoreSave(cls, mem, doc) ==
    IF cls = "state_store" THEN StoreDoc(mem.keys, mem.vals, mem.other)
    ELSE StoreDoc(mem.keys, "str", {})

NoInstance == [keys |-> {}, vals |-> "none", other |-> {}]

RaceDocs ==
    {MissingDoc, BadJsonDoc}
    \cup {StoreDoc({}, "str", o) : o \in {{}, {"updated_at_utc"}, OtherFields}}
    \cup {StoreDoc({k}, v, o) : k \in RaceKeys, v \in {"str", "num"},
                                o \in {{}, {"updated_at_utc"}, OtherFields}}

InitStore ==
    /\ prog \in StoreClasses
    /\ stage = "00" /\ cap = 1 /\ creds = "ok" /\ pathsSet = TRUE
    /\ statePath = TRUE /\ max_output_tokens = DefaultTokens
    /\ inDir = [n \in Names |-> NoFile]
    /\ outDir = {} /\ doneDir = {}
    /\ stateDoc \in RaceDocs
    /\ nextRev = 1 /\ run = 0
    /\ pc = [r \in Racers |-> "r_start"]
    /\ files = <<>> /\ idx = 0
    /\ ledger = [r \in Racers |-> NoInstance]
    /\ loaded = [r \in Racers |-> [doc |-> MissingDoc, ok |-> FALSE, mem |-> NoInstance]]
    /\ processed = 0 /\ audit = <<>> /\ ops = <<>>
    /\ rc = "none"
    /\ worked = {}
    /\ hist = [loads |-> TRUE, saves |-> TRUE, ups |-> 0]
    /\ otherIn = [s \in AllStages |-> {}]
    /\ logs = {} /\ stdout = <<>> /\ logger = "none" /\ clock = 0
    /\ uploads = 0 /\ faults = 0

StoreFrame == UNCHANGED <<cfgVars, inDir, outDir, doneDir, nextRev, run, files, idx,
                          processed, audit, rc, worked, hist, otherIn, logVars, uploads>>

\* one call of a run on its instance / on the store
RaceOp(o, r, ok, doc) == [op |-> o, by |-> r, ok |-> ok, before |-> doc]

\* StateStore.load(dbx, path): never raises
Store_load(r) ==
    /\ pc[r] = "r_start"
    /\ \E ok \in BOOLEAN :
          /\ StoreCall(ok)
          /\ ledger' = [ledger EXCEPT ![r] = StoreLoad(prog, stateDoc, ok)]
          /\ loaded' = [loaded EXCEPT ![r] = [doc |-> stateDoc, ok |-> ok,
                                              mem |-> StoreLoad(prog, stateDoc, ok)]]
          /\ ops' = Append(ops, RaceOp("load", r, ok, stateDoc))
    /\ pc' = [pc EXCEPT ![r] = "r_loaded"]
    /\ UNCHANGED stateDoc
    /\ StoreFrame

\* StateStore.mark_processed(key, value): in memory only
Store_mark_processed(r) ==
    /\ pc[r] = "r_loaded"
    /\ \E k \in RaceKeys :
          /\ k \notin ledger[r].keys
          /\ ledger' = [ledger EXCEPT ![r].keys = @ \cup {k}]
    /\ UNCHANGED <<pc, loaded, ops, stateDoc, faults>>
    /\ StoreFrame

\* StateStore.save(dbx): writes the whole in-memory document; a failed write raises
Store_save(r) ==
    /\ pc[r] = "r_loaded"
    /\ \E ok \in BOOLEAN :
          /\ StoreCall(ok)
          /\ stateDoc' = IF ok THEN StoreSave(prog, ledger[r], stateDoc) ELSE stateDoc
          /\ ops' = Append(ops, RaceOp("save", r, ok, stateDoc))
          /\ pc' = [pc EXCEPT ![r] = IF ok THEN "r_saved" ELSE "r_raised"]
    /\ UNCHANGED <<ledger, loaded>>
    /\ StoreFrame

NextStore ==
    \/ \E r \in Racers : Store_load(r)
    \/ \E r \in Racers : Store_mark_processed(r)
    \/ \E r \in Racers : Store_save(r)

SpecStore == InitStore /\ [][NextStore]_vars

\* ---------------------------------------------------------------- main.py, the PDF path
\* main.py on a listing of PDFs under papers/: per file the structured parse,
\* the non-structured fallback, and the upload of the output.

\* t0 = int(max_output_tokens); t1 = max(1200, t0 // 2); t2 = max(800, t0 // 3)
Budgets(t) == <<t, Max(1200, t \div 2), Max(800, t \div 3)>>

\* one call of the model for file n with a token budget
Call(o, n, tok, ok) == [op |-> o, dir |-> "MEM", file |-> n, tokens |-> tok, ok |-> ok]

\* logs.append(f"pdf_retry{i}_tokens={tok}")
RetryLog(i, tok) == [event |-> "pdf_retry", file |-> i, tokens |-> tok]

InitRetry ==
    /\ prog = "inbox" /\ stage = "00" /\ cap = NumNames /\ creds = "ok" /\ pathsSet = TRUE
    /\ statePath = TRUE
    /\ max_output_tokens \in TokenChoices
    /\ inDir = [n \in Names |-> [content |-> <<1, 1>>, rev |-> n]]
    /\ outDir = {} /\ doneDir = {}
    /\ stateDoc = MissingDoc
    /\ nextRev = NumNames + 1 /\ run = 1
    /\ pc = "p_file"
    /\ files = SortedSeq(Names) /\ idx = 1
    /\ ledger = {} /\ loaded = {}
    /\ processed = 0 /\ audit = <<>> /\ ops = <<>>
    /\ rc = "none"
    /\ worked = {}
    /\ hist = [loads |-> TRUE, saves |-> TRUE, ups |-> 0]
    /\ otherIn = [s \in AllStages |-> {}]
    /\ logs = {} /\ stdout = <<>> /\ logger = "none" /\ clock = 0
    /\ uploads = 0 /\ faults = 0

RetryFrame == UNCHANGED <<cfgVars, inDir, doneDir, stateDoc, nextRev, run, files, ledger,
                          loaded, rc, worked, hist, otherIn, logVars, uploads, faults>>

\* run_structured_pdf_with_retries: the loop body calls
\* run_structured_pdf_once with the first budget and returns its result; an
\* exception of the call leaves the function, so the loop never reaches the
\* second budget and the raise after the loop is never reached
P_Structured ==
    /\ pc = "p_file"
    /\ idx <= Len(files)
    /\ \E ok \in BOOLEAN :
          /\ ops' = Append(ops, Call("structured", Cur, Budgets(max_output_tokens)[1], ok))
          /\ IF ok
             THEN /\ audit' = Append(audit, RetryLog(0, Budgets(max_output_tokens)[1]))
                  /\ pc' = "p_upload"
             ELSE /\ audit' = audit
                  /\ pc' = "p_fallback"
    /\ UNCHANGED <<idx, processed, outDir>>
    /\ RetryFrame

\* except Exception as e_pdf_struct: run_fallback_pdf_markdown(max(1800, max_output_tokens));
\* when that raises too, except Exception as e_struct writes a fixed text
P_Fallback ==
    /\ pc = "p_fallback"
    /\ \E ok \in BOOLEAN :
          ops' = Append(ops, Call("fallback", Cur, Max(1800, max_output_tokens), ok))
    /\ pc' = "p_upload"
    /\ UNCHANGED <<idx, processed, audit, outDir>>
    /\ RetryFrame

\* upload_text(out_path, out_text); processed_count += 1; a failure goes to the
\* per-file except and the loop continues
P_Upload ==
    /\ pc = "p_upload"
    /\ \E ok \in BOOLEAN :
          /\ ops' = Append(ops, Op("write", "OUT", Cur, ok))
          /\ outDir' = IF ok THEN outDir \cup {Artifact("OUT", Cur, InboxKey(Cur, CurFile), CurFile)}
                       ELSE outDir
          /\ processed' = IF ok THEN processed + 1 ELSE processed
    /\ idx' = idx + 1
    /\ pc' = "p_file"
    /\ UNCHANGED audit
    /\ RetryFrame

NextRetry == P_Structured \/ P_Fallback \/ P_Upload

SpecRetry == InitRetry /\ [][NextRetry]_vars

\* ---------------------------------------------------------------- the three stages in a row
\* run_switch_stage run several times on one store, with MONTHLY_STAGE chosen per
\* run and no failing call.  File names are sequences of tokens: a stem, the
\* parts a stage appends, and the extension tokens (".prep", ".json").

\* n.lower()
Lower(t) == IF t = ".XLSX" THEN ".xlsx" ELSE t
LowerName(n) == [i \in DOMAIN n |-> Lower(n[i])]

\* n.endswith(suffix)
EndsWith(n, suf) ==
    /\ Len(n) >= Len(suf)
    /\ SubSeq(n, Len(n) - Len(suf) + 1, Len(n)) = suf

\* name.replace(suffix, "")
RECURSIVE Replace(_, _)
Replace(n, suf) ==
    IF Len(n) < Len(suf) THEN n
    ELSE IF SubSeq(n, 1, Len(suf)) = suf THEN Replace(SubSeq(n, Len(suf) + 1, Len(n)), suf)
    ELSE <<n[1]>> \o Replace(Tail(n), suf)

\* name.rsplit(".", 1)[0]
Base(n) == SubSeq(n, 1, Len(n) - 1)

\* the extension each stage's listing is filtered by
\* mutant: stage 10 looks for the extension stage 00 does not write
InSuffix_PrepOut(s) == IF s = "00" THEN <<".xlsx">>
                       ELSE IF s = "10" THEN <<".prep", ".out", ".json">>
                       ELSE <<".overview", ".json">>

\* n.lower().endswith(".xlsx") / (".prep.json") / (".overview.json")
InSuffix(s) == IF s = "00" THEN <<".xlsx">>
               ELSE IF s = "10" THEN <<".prep", ".json">>
               ELSE <<".overview", ".json">>

\* _now_stamp(): the runs of one behaviour happen at different seconds
_now_stamp == ToString(run)

\* out_name of the stage for input name n with content c
\* 00: f"{base}__{_now_stamp()}__{_sha12(raw)}.prep.json"
\* 10: f"{base}__{_now_stamp()}.overview.json"    20: f"{base}__{_now_stamp()}.md"
OutName(s, n, c) ==
    IF s = "00" THEN Base(n) \o <<"__", _now_stamp, "__", ToString(_sha12(c)), ".prep", ".json">>
    ELSE IF s = "10" THEN Replace(n, <<".prep", ".json">>) \o <<"__", _now_stamp, ".overview", ".json">>
    ELSE Replace(n, <<".overview", ".json">>) \o <<"__", _now_stamp, ".md">>

\* a file of the store: its name, the digest of the workbook it stems from, and
\* the stage that wrote it ("user" for an upload)
PFile(n, c, by) == [name |-> n, content |-> c, by |-> by]

\* the workbooks and the other files the user can put into 00/IN
Workbook(w) == PFile(<<ToString(w), IF w = NumNames THEN ".XLSX" ELSE ".xlsx">>, <<1, 1>>, "user")
OtherFile == PFile(<<"memo", ".json">>, <<1, 1>>, "user")

RECURSIVE SetToSeq(_)
SetToSeq(S) == IF S = {} THEN <<>>
               ELSE LET x == CHOOSE y \in S : TRUE IN <<x>> \o SetToSeq(S \ {x})

\* _list_files(dbx, folder), filtered by the stage's extension
PipeListing(s) == SetToSeq({f \in inDir[s] : EndsWith(LowerName(f.name), InSuffix(s))})

\* dbx.move(src, f"{done_dir}/{name}", overwrite=True)
PipeArchive(done, f) == {e \in done : e.name # f.name} \cup {f}

\* dbx.write_bytes(out_path, ..., overwrite=True)
PipeWrite(dir, f) == {e \in dir : e.name # f.name} \cup {f}

InitPipe ==
    /\ prog = "multistage" /\ stage = "00" /\ cap \in 1..MaxCap /\ creds = "ok"
    /\ pathsSet = TRUE
    /\ statePath = TRUE /\ max_output_tokens = DefaultTokens
    /\ \E k \in 1..NumNames : \E junk \in SUBSET {OtherFile} :
          inDir = [s \in MStages |-> IF s = "00" THEN {Workbook(w) : w \in 1..k} \cup junk
                                     ELSE junk]
    /\ outDir = {}
    /\ doneDir = [s \in MStages |-> {}]
    /\ stateDoc \in {MissingDoc, SavedDoc({})}
    /\ nextRev = 1 /\ run = 0
    /\ pc = "idle"
    /\ files = <<>> /\ idx = 0
    /\ ledger = {} /\ loaded = {}
    /\ processed = 0 /\ audit = <<>> /\ ops = <<>>
    /\ rc = "none"
    /\ worked = {}
    /\ hist = <<>>
    /\ otherIn = [s \in AllStages |-> {}]
    /\ logs = {} /\ stdout = <<>> /\ logger = "none" /\ clock = 0
    /\ uploads = 0 /\ faults = 0

PipeFrame == UNCHANGED <<prog, cap, creds, pathsSet, statePath, max_output_tokens, nextRev,
                         audit, worked, otherIn, logVars, uploads, faults>>

\* run_switch_stage with MONTHLY_STAGE = s: load_state, then the stage lists its
\* IN directory, filters it and slices it to the cap
Q_Start ==
    /\ pc = "idle"
    /\ run < Len(Order)
    /\ \E s \in MStages :
          /\ stage' = s
          /\ files' = Truncate(PipeListing(s), cap)
          /\ pc' = IF PipeListing(s) = <<>> THEN "q_end" ELSE "q_file"
    /\ run' = run + 1
    /\ idx' = 1
    /\ ledger' = load_state(stateDoc, TRUE)
    /\ loaded' = load_state(stateDoc, TRUE)
    /\ processed' = 0
    /\ ops' = <<>>
    /\ rc' = "none"
    /\ UNCHANGED <<inDir, outDir, doneDir, stateDoc, hist>>
    /\ PipeFrame

\* one iteration of the stage's loop: read, key, skip when done, write the
\* output into the next stage's IN (stage 20: the outbox OUT), move to DONE, mark
Q_File ==
    /\ pc = "q_file"
    /\ idx <= Len(files)
    /\ LET f == files[idx]
           key == StageKey(stage, f.name, f.content)
           out == PFile(OutName(stage, f.name, f.content), f.content, stage)
       IN IF key \in ledger
          THEN /\ ops' = Append(ops, Op("read", "IN", f.name, TRUE))
               /\ UNCHANGED <<inDir, outDir, doneDir, ledger, processed>>
          ELSE /\ ops' = ops \o <<Op("read", "IN", f.name, TRUE),
                                  Op("write", MOutDir, out.name, TRUE),
                                  Op("move", "DONE", f.name, TRUE)>>
               /\ IF stage = "20"
                  THEN /\ outDir' = PipeWrite(outDir, out)
                       /\ inDir' = [inDir EXCEPT ![stage] = @ \ {f}]
                  ELSE /\ outDir' = outDir
                       /\ inDir' = [inDir EXCEPT ![stage] = @ \ {f},
                                                 ![Succ(stage)] = PipeWrite(@, out)]
               /\ doneDir' = [doneDir EXCEPT ![stage] = PipeArchive(@, f)]
               /\ ledger' = ledger \cup {key}
               /\ processed' = processed + 1
    /\ idx' = idx + 1
    /\ UNCHANGED <<stage, run, pc, files, loaded, stateDoc, rc, hist>>
    /\ PipeFrame

\* state["done"] = sorted(done_keys); return processed; save_state(dbx, path, state)
Q_End ==
    /\ \/ pc = "q_end"
       \/ pc = "q_file" /\ idx > Len(files)
    /\ stateDoc' = SavedDoc(ledger)
    /\ ops' = Append(ops, Op("write", "STATE", 0, TRUE))
    /\ hist' = Append(hist, stage)
    /\ pc' = "idle"
    /\ rc' = "0"
    /\ UNCHANGED <<stage, run, files, idx, ledger, loaded, processed, inDir, outDir, doneDir>>
    /\ PipeFrame

NextPipe == Q_Start \/ Q_File \/ Q_End

SpecPipe == InitPipe /\ [][NextPipe]_vars

\* ---------------------------------------------------------------- main.py, the outbox index
\* append_outbox_index called several times on one INDEX.md.  A text is a
\* sequence of lines, a line a sequence of tokens; INDEX.md is a file of `logs`.
IndexPath == "INDEX.md"

\* the output file names handed to the calls; the first is part of the last
IndexNames == {<<"a", ".out.md">>, <<"b", ".out.md">>, <<"b", "a", ".out.md">>}

\* build_index_line: "- ... | [out](./{out_md_name}) | {inp}"
IndexLine(nm) == <<"- ", "[out](./">> \o nm \o <<")">>

\* header = "# Outbox Index\n\nColumns: ...\n\n"
Header == << <<"# Outbox Index">>, <<>>, <<"Columns">>, <<>> >>

\* s in t, for token sequences
IsSubSeq(s, t) == \E i \in 1..(Len(t) - Len(s) + 1) : SubSeq(t, i, i + Len(s) - 1) = s

\* out_md_name in existing
Referenced(nm, text) == \E i \in DOMAIN text : IsSubSeq(nm, text[i])

\* existing.rstrip(): without the blank lines at its end
RECURSIVE RStrip(_)
RStrip(text) == IF text = <<>> THEN <<>>
                ELSE IF text[Len(text)] = <<>> THEN RStrip(SubSeq(text, 1, Len(text) - 1))
                ELSE text

\* the text at INDEX.md, and whether the file is there
IndexText == IF \E f \in logs : f.path = IndexPath
             THEN (CHOOSE f \in logs : f.path = IndexPath).body ELSE <<>>
IndexExists == \E f \in logs : f.path = IndexPath

\* existing = download_text(index_path, max_bytes=max_bytes), except Exception: ""
\* download_text is not in the repository: for a text over max_bytes it may
\* raise, cut the text, or return it whole
Existing_Index(readOK) ==
    IF ~readOK \/ ~IndexExists THEN {<<>>}
    ELSE IF Len(IndexText) > MaxIndexLines
         THEN {<<>>, SubSeq(IndexText, 1, MaxIndexLines), IndexText}
    ELSE {IndexText}

\* new_text: header + line for an empty text, else existing.rstrip() + "\n" + line
NewText(existing, line) ==
    IF RStrip(existing) = <<>> THEN Header \o <<line>>
    ELSE RStrip(existing) \o <<line>>

IndexCall(nm, existing, wrote, ok, before) ==
    [op |-> "append_index", dir |-> "OUT", file |-> nm, existing |-> existing,
     wrote |-> wrote, ok |-> ok, before |-> before]

InitIndex ==
    /\ prog = "inbox" /\ stage = "00" /\ cap = 1 /\ creds = "ok" /\ pathsSet = TRUE
    /\ statePath = TRUE /\ max_output_tokens = DefaultTokens
    /\ inDir = [n \in Names |-> NoFile]
    /\ outDir = {} /\ doneDir = {}
    /\ stateDoc = MissingDoc
    /\ nextRev = 1 /\ run = 1
    /\ pc = "x_ready"
    /\ files = <<>> /\ idx = 0
    /\ ledger = {} /\ loaded = {}
    /\ processed = 0 /\ audit = <<>> /\ ops = <<>>
    /\ rc = "none"
    /\ worked = {}
    /\ hist = [loads |-> TRUE, saves |-> TRUE, ups |-> 0]
    /\ otherIn = [s \in AllStages |-> {}]
    /\ logs \in {{}} \cup {{[path |-> IndexPath, body |-> t]} :
                   t \in {<<>>, Header \o <<IndexLine(<<"z", ".out.md">>)>>,
                          Header \o <<IndexLine(<<"z", ".out.md">>), <<>> >>}}
    /\ stdout = <<>> /\ logger = "none" /\ clock = 0
    /\ uploads = 0 /\ faults = 0

IndexFrame == UNCHANGED <<cfgVars, storeVars, run, pc, files, idx, ledger, loaded, processed,
                          rc, worked, hist, otherIn, stdout, logger, clock, uploads>>

\* append_outbox_index(outbox_path, out_md_name, line): read, return when the
\* name is referenced, else upload the new text
X_Referenced(nm) ==
    /\ Len(ops) < MaxCalls
    /\ \E readOK \in BOOLEAN :
          /\ StoreCall(readOK)
          /\ \E existing \in Existing_Index(readOK) :
                /\ Referenced(nm, existing)
                /\ ops' = Append(ops, IndexCall(nm, existing, FALSE, TRUE, IndexText))
    /\ UNCHANGED <<logs, audit>>
    /\ IndexFrame

\* the read fails before the upload, or succeeds and the upload may fail
X_Append(nm) ==
    /\ Len(ops) < MaxCalls
    /\ \E readOK, ok \in BOOLEAN :
          /\ StoreCall(readOK /\ ok)
          /\ ~readOK => ok
          /\ \E existing \in Existing_Index(readOK) :
                /\ ~Referenced(nm, existing)
                /\ ops' = Append(ops, IndexCall(nm, existing, TRUE, ok, IndexText))
                /\ logs' = IF ok THEN WriteLog(logs, IndexPath, NewText(existing, IndexLine(nm)))
                           ELSE logs
                \* main: except Exception as e_index: run_lines.append(INDEX_FAIL ...)
                /\ audit' = IF ok THEN audit ELSE Append(audit, Ev("INDEX_FAIL", 0))
    /\ IndexFrame

NextIndex ==
    \/ \E nm \in IndexNames : X_Referenced(nm)
    \/ \E nm \in IndexNames : X_Append(nm)

SpecIndex == InitIndex /\ [][NextIndex]_vars

\* ---------------------------------------------------------------- claims
PerFileOps == {"read", "transform", "write", "copy", "move"}
FailedAt(i) == ~ops[i].ok /\ ops[i].file # 0 /\ ops[i].op \in PerFileOps
FailedFiles == {ops[i].file : i \in {j \in DOMAIN ops : FailedAt(j)}}
NoFailedOps == \A i \in DOMAIN ops : ops[i].ok
HasEvent(e) == \E i \in DOMAIN audit : audit[i].event = e
ErrorRecords(n) ==
    {i \in DOMAIN audit : audit[i].event \in {"ERROR", "stage00_error", "error"}
                          /\ audit[i].file = n}

\* the last run has ended (not by a kill) and nothing was uploaded since it started
RunEnded == pc = "idle" /\ run > 0 /\ rc \notin {"none", "killed"} /\ hist.ups = uploads

IsWrite(o) == /\ o.op \in {"write", "copy"} /\ o.ok /\ o.file # 0
              /\ o.dir \in {"OUT", "NEXT_IN", "NEXT_OUT"}
IsFwd(o) == IsWrite(o) /\ o.dir \in {"NEXT_IN", "NEXT_OUT"}
IsOwnOut(o) == IsWrite(o) /\ o.dir = "OUT"
IsMove(o) == o.op = "move" /\ o.ok
Written(n) == \E i \in DOMAIN ops : IsWrite(ops[i]) /\ ops[i].file = n
Moved(n) == \E i \in DOMAIN ops : IsMove(ops[i]) /\ ops[i].file = n
Listed == {files[i] : i \in DOMAIN files}
Marked(n) == \E k \in ledger : k[2] = n

\* the files the pass was to handle
Batch == IF prog = "multistage" THEN {files[i] : i \in 1..MLoopBound}
         ELSE IF prog = "inbox" THEN {files[i] : i \in 1..(idx - 1)}
         ELSE Listed

FullyProcessed(n) ==
    IF prog = "inbox" THEN Marked(n)
    ELSE \/ Written(n) /\ Moved(n)
         \/ prog = "multistage" /\ inDir[n] # NoFile
              /\ StageKey(stage, n, inDir[n].content) \in loaded

\* C1 as stated: when a per-file step fails, the pass ends without a crash, every
\* other file of the batch is fully processed, the failing file is still in IN and
\* has exactly one error record.
C1_FailureIsolated ==
    (RunEnded /\ creds = "ok" /\ FailedFiles # {}) =>
        /\ rc # "exception"
        /\ \A n \in FailedFiles : inDir[n] # NoFile /\ Cardinality(ErrorRecords(n)) = 1
        /\ \A m \in Batch \ FailedFiles : FullyProcessed(m)

LastFileOp == LET I == {i \in DOMAIN ops : ops[i].file # 0}
              IN CHOOSE i \in I : \A j \in I : j <= i

\* C1 amended: when a per-file step fails, the failing file is still in IN with at
\* most one error record and every file moved before stays processed; main.py logs
\* one ERROR and goes on to every other file up to the cap; stage00.run logs one
\* stage00_error and returns 1 at the first failure, leaving the later files;
\* the monthly_pipeline stages log nothing, skip a file whose read failed and let
\* any other failure end the run before the state is saved.
C1_FailureContained ==
    (RunEnded /\ creds = "ok" /\ FailedFiles # {}) =>
        /\ \A n \in FailedFiles : inDir[n] # NoFile /\ Cardinality(ErrorRecords(n)) <= 1
        /\ \A m \in Names : Moved(m) => Written(m) /\ inDir[m] = NoFile
        /\ prog = "inbox" =>
              /\ \A n \in FailedFiles : Cardinality(ErrorRecords(n)) = 1
              /\ \A m \in Listed : Marked(m) \/ m \in FailedFiles \/ processed >= cap
              /\ rc = "0" \/ \E i \in DOMAIN ops : ops[i].dir = "STATE" /\ ~ops[i].ok
        /\ prog = "stage00" =>
              /\ rc = "1"
              /\ FailedAt(LastFileOp)
              /\ Cardinality(FailedFiles) = 1
              /\ \A n \in FailedFiles : Cardinality(ErrorRecords(n)) = 1
        /\ prog = "multistage" =>
              /\ \A n \in FailedFiles : ErrorRecords(n) = {}
              /\ (\E i \in DOMAIN ops : FailedAt(i) /\ ops[i].op # "read") =>
                    /\ rc = "exception"
                    /\ FailedAt(LastFileOp)
                    /\ ~ \E i \in DOMAIN ops : ops[i].op = "write" /\ ops[i].dir = "STATE"

C1_Witness ==
    /\ RunEnded /\ prog = "inbox" /\ rc = "0"
    /\ \E i, j \in DOMAIN ops :
          /\ i < j /\ FailedAt(i) /\ ops[i].op = "transform"
          /\ IsWrite(ops[j]) /\ ops[j].file # ops[i].file

NoRepeat == \A a1, a2 \in outDir : (a1.name # 0 /\ a1.key = a2.key) => a1.run = a2.run

NotWorkedIfLoaded ==
    /\ \A w \in worked : w.run = run => w.key \notin loaded
    /\ \A a \in outDir : (a.run = run /\ a.name # 0) => a.key \notin loaded

\* C2 as stated: a pass does no work for a file whose key is in the ledger loaded
\* at run start, and over runs whose saves all succeeded no key has output
\* artifacts from two runs.
C2_OncePerKeyIfSaved ==
    /\ NotWorkedIfLoaded
    /\ hist.saves => NoRepeat

\* C2 amended: a pass (monthly_pipeline stages, main.py; stage00.run keeps no keys)
\* does no work for a file whose key is in the ledger loaded at run start, and
\* over runs whose state loads and saves all succeeded no key has output
\* artifacts from two runs.
C2_OncePerKeyIfLoadedAndSaved ==
    /\ NotWorkedIfLoaded
    /\ (hist.saves /\ hist.loads /\ RunLoadOK /\ prog # "stage00") => NoRepeat

C2_Witness ==
    /\ prog = "multistage" /\ pc = "m_read" /\ run = 2
    /\ hist.saves /\ hist.loads /\ RunLoadOK
    /\ \E i \in DOMAIN ops :
          /\ ops[i].op = "read" /\ ops[i].dir = "IN" /\ ops[i].ok
          /\ StageKey(stage, ops[i].file, inDir[ops[i].file].content) \in loaded
          /\ ~ \E w \in worked : w.run = run /\ w.name = ops[i].file

\* the loop has just skipped a file it read: its key was in done_keys
SkippedJust ==
    /\ prog = "multistage" /\ pc = "m_read" /\ Len(ops) > 0
    /\ ops[Len(ops)].op = "read" /\ ops[Len(ops)].dir = "IN" /\ ops[Len(ops)].ok
SkippedFile == ops[Len(ops)].file

Pending == processed + Cardinality({n \in Names : inDir[n] # NoFile})

\* C4 as stated: with more pending files than the cap, a pass without failures
\* processes exactly cap files and records a stop event.
C4_CapAndStop ==
    (RunEnded /\ rc = "0" /\ prog \in {"multistage", "stage00"} /\ NoFailedOps
       /\ Pending > cap) =>
        /\ processed = cap
        /\ HasEvent("stop")

LoopDone == \/ prog = "multistage" /\ pc = "m_read" /\ idx > MLoopBound
            \/ prog = "inbox" /\ pc = "i_file" /\ ~ILoopGoes
KeyOf(n) == IF prog = "multistage" THEN StageKey(stage, n, inDir[n].content)
            ELSE InboxKey(n, inDir[n])

\* C5 as stated, for one pass: when a pass without failures leaves a listed file
\* unprocessed, the pass has processed cap files; a file that was already handled
\* never takes the place of an unprocessed one.
C5_HandledNeverOccupyCap ==
    (LoopDone /\ NoFailedOps) =>
        \A n \in Listed :
            (inDir[n] # NoFile /\ KeyOf(n) \notin ledger) => processed >= cap

\* files whose output this run wrote and whose original it has not moved yet
WrittenNotMoved ==
    {n \in Names : /\ \E i \in DOMAIN ops : IsWrite(ops[i]) /\ ops[i].file = n
                   /\ ~ \E j \in DOMAIN ops : IsMove(ops[j]) /\ ops[j].file = n}

\* C6: at every point of a pass of a stage with a DONE folder, also after a kill
\* between two store calls, every original archived in DONE has its output
\* artifact written, and at most one file is written but not yet moved.
C6_DoneOnlyAfterWritten ==
    /\ \A d \in doneDir :
          \E a \in outDir : a.name = d.fname[1] /\ a.content = d.content
    /\ prog \in {"multistage", "stage00"} => Cardinality(WrittenNotMoved) <= 1

C6_Witness ==
    /\ rc = "killed" /\ pc = "idle"
    /\ prog \in {"multistage", "stage00"}
    /\ Cardinality(WrittenNotMoved) = 1
    /\ doneDir # {}

\* C7 as stated: every forward-hop write (into the next stage's IN) comes after a
\* write to the stage's own OUT and a move to DONE for the same file.
C7_ForwardAfterOutAndMove ==
    \A i \in DOMAIN ops : IsFwd(ops[i]) =>
        /\ \E j \in 1..(i - 1) : IsOwnOut(ops[j]) /\ ops[j].file = ops[i].file
        /\ \E k \in 1..(i - 1) : IsMove(ops[k]) /\ ops[k].file = ops[i].file

\* C7 amended: the write into the next stage's IN is the stage's only output
\* write and comes first; the original is moved to DONE only after an output
\* write for the same file succeeded, and no forward write follows a move or
\* an own-OUT write of that file.
C7_MoveAfterForward ==
    /\ \A i \in DOMAIN ops : IsMove(ops[i]) =>
          \E j \in 1..(i - 1) : IsWrite(ops[j]) /\ ops[j].file = ops[i].file
    /\ \A i \in DOMAIN ops : IsFwd(ops[i]) =>
          ~ \E j \in 1..(i - 1) : /\ ops[j].file = ops[i].file
                                  /\ IsMove(ops[j]) \/ IsOwnOut(ops[j])

C7_Witness ==
    /\ prog = "multistage" /\ stage \in {"00", "10"}
    /\ \E i, j \in DOMAIN ops :
          i < j /\ IsFwd(ops[i]) /\ IsMove(ops[j]) /\ ops[i].file = ops[j].file

StageFailure ==
    \E i \in DOMAIN ops : /\ ~ops[i].ok
                          /\ ops[i].dir \in {"IN", "OUT", "DONE"}
                          /\ ops[i].op \in {"list", "write", "copy", "move"}
DriverEnded == prog = "stage00" /\ pc = "idle" /\ rc \notin {"none", "killed"}

Exited(code) == \E i \in DOMAIN audit : audit[i] = StageExit(code)

SaveFailed == \E i \in DOMAIN ops : ops[i].op = "write" /\ ops[i].dir = "STATE" /\ ~ops[i].ok
SaveFailedAt(i) == ops[i].op = "write" /\ ops[i].dir = "STATE" /\ ~ops[i].ok
AnyRunEnded == pc = "idle" /\ run > 0 /\ rc \notin {"none", "killed"}

\* C11 as stated: when the state save fails after output was written, the run ends
\* without an unhandled exception and the failure is in the audit log.
C11_SaveFailureNotEscalated ==
    (AnyRunEnded /\ SaveFailed /\ \E i \in DOMAIN ops : IsWrite(ops[i])) =>
        /\ rc # "exception"
        /\ \E i \in DOMAIN audit : audit[i].event = "state_save_failed"

\* C11 amended: in monthly_main.main a failed state save is recorded in the audit
\* log (state_saved, ok false), the audit log is still written afterwards and the
\* exit code is the return code the stage ended with; in run_switch_stage and in
\* main.py the failed save leaves the run as an unhandled exception with no
\* record of it.
C11_SaveFailureLoggedByDriverOnly ==
    (AnyRunEnded /\ SaveFailed) =>
        /\ prog = "stage00" =>
              /\ HasEvent("state_save_failed")
              /\ \E i, j \in DOMAIN ops :
                    i < j /\ SaveFailedAt(i) /\ ops[j].op = "write" /\ ops[j].dir = "LOGS"
              /\ \/ HasEvent("stage_error") /\ rc = "1"
                 \/ \E i \in DOMAIN audit : audit[i].event = "stage_end" /\ audit[i].code = rc
        /\ prog # "stage00" =>
              /\ rc = "exception"
              /\ ~HasEvent("state_save_failed") /\ ~HasEvent("END")

C11_Witness ==
    /\ prog = "stage00" /\ AnyRunEnded /\ SaveFailed /\ creds = "ok"
    /\ processed >= 1 /\ rc = "0"
    /\ HasEvent("state_save_failed")

SaveOps == {i \in DOMAIN ops : ops[i].op = "write" /\ ops[i].dir = "STATE"}
\* the run got as far as calling its stage (monthly_main found a stage module)
StageStarted == prog = "stage00" => ModuleFound
StateLoaded == \E i \in DOMAIN ops : ops[i].op = "read" /\ ops[i].dir = "STATE"

\* C12 as stated: a run that loaded the ledger and started its stage has attempted
\* exactly one ledger save when it ends, also when the stage raised, and a save
\* that succeeded holds every key marked in the run.
C12_ExactlyOneSave ==
    (AnyRunEnded /\ StateLoaded /\ StageStarted) =>
        /\ Cardinality(SaveOps) = 1
        /\ \A i \in SaveOps : ops[i].ok => ledger \subseteq stateDoc.keys

\* C12 amended: monthly_main.main attempts exactly one ledger save in every run
\* that loaded the ledger, also when the stage raised; run_switch_stage saves once
\* only when the stage returned, and not at all when it raised (the keys marked
\* so far are lost); main.py saves once only when it processed at least one file.
\* No run saves twice, and a successful save holds every key marked in the run.
C12_OneSaveByDriverOnly ==
    (AnyRunEnded /\ StateLoaded /\ StageStarted) =>
        /\ Cardinality(SaveOps) <= 1
        /\ \A i \in SaveOps : ops[i].ok => ledger \subseteq stateDoc.keys
        /\ prog = "stage00" => Cardinality(SaveOps) = 1
        /\ prog = "multistage" =>
              (SaveOps = {} <=> \E i \in DOMAIN ops :
                                    /\ ~ops[i].ok
                                    /\ ops[i].op \in {"list", "transform", "write", "move"}
                                    /\ ops[i].dir # "STATE")
        /\ prog = "inbox" =>
              (SaveOps = {} <=> (processed = 0 \/ files = <<>>))

C12_Witness ==
    /\ prog = "stage00" /\ AnyRunEnded /\ creds = "ok"
    /\ HasEvent("stage_error") /\ HasEvent("stage00_marker_written")
    /\ Cardinality(SaveOps) = 1

Attempted(n) == \E i \in DOMAIN ops : ops[i].file = n
FileKey(n) == IF prog = "multistage" THEN StageKey(stage, n, inDir[n].content)
              ELSE IF prog = "inbox" THEN InboxKey(n, inDir[n])
              ELSE PathKey(n)
LoopFinished == IF prog = "multistage" THEN idx > MLoopBound
                ELSE IF prog = "inbox" THEN ~ILoopGoes
                ELSE idx > Len(files)

JustListed == /\ prog = "multistage" /\ pc \in {"m_read", "m_save"} /\ Len(ops) > 0
              /\ ops[Len(ops)].op = "list" /\ ops[Len(ops)].ok

\* C14 as stated: the stage the run works on is the first stage with a pending
\* file, scanning from the hinted stage and wrapping; with nothing pending the
\* run is a no-op with exit code 0.
C14_FirstPendingStageSelected ==
    /\ (JustListed /\ \E s \in MStages : HasInput(s)) =>
          /\ HasInput(stage)
          /\ files = ListingOf(Dispatch_Scan(stage))
    /\ (prog = "multistage" /\ AnyRunEnded /\ NoFailedOps /\ files = <<>>) => rc = "0"

\* C14 amended: the run works on the hinted stage only, without scanning: the
\* files of the pass are the listing of the hinted stage's input directory
\* whatever the other stages hold; when that listing is empty, or the hint names
\* no stage function, the run is a no-op with exit code 0 that writes nothing but
\* the state, also while another stage has pending files.
C14_HintedStageOnly ==
    /\ JustListed => stage \in MStages /\ files = Listing(inDir)
    /\ (prog = "multistage" /\ stage \notin MStages) =>
          \A i \in DOMAIN ops : ops[i].op # "list" /\ ops[i].file = 0
    /\ (prog = "multistage" /\ AnyRunEnded /\ NoFailedOps /\ files = <<>>) =>
          /\ rc = "0" /\ processed = 0
          /\ \A i \in DOMAIN ops : ops[i].file = 0
          /\ ~ \E a \in outDir : a.run = run

C14_Witness ==
    /\ prog = "multistage" /\ stage \in MStages /\ AnyRunEnded /\ rc = "0"
    /\ \E i \in DOMAIN ops : ops[i].op = "list" /\ ops[i].ok
    /\ files = <<>>
    /\ \E s \in MStages : otherIn[s] # {}

\* the stage callable of the run raised: an Exception (stage_error) or SystemExit
StageRaised ==
    /\ prog = "stage00"
    /\ \E i \in DOMAIN audit :
          \/ audit[i].event = "stage_error"
          \/ audit[i].event = "stage_end" /\ "system_exit" \in DOMAIN audit[i]

AuditWrites == {i \in DOMAIN ops : ops[i].op = "write" /\ ops[i].dir = "LOGS"}

\* the audit log of the run went out once, whole: to the run's log file, or to
\* stdout when the write failed
AuditOutOnce ==
    /\ Cardinality(AuditWrites) = 1
    /\ \A i \in AuditWrites :
          IF ops[i].ok
          THEN /\ \E f \in logs : f.path = RunLogPath(run) /\ f.body = to_jsonl(audit)
               /\ stdout = <<>>
          ELSE /\ stdout = <<Warn>> \o safe_json(audit)
               /\ ~ \E f \in logs : f.path = RunLogPath(run)

\* C15 as stated: when the stage callable raised an Exception or SystemExit, the
\* ended run of monthly_main.main has attempted the state save and has written
\* the audit log exactly once, with every event, to the store or to stdout.
C15_RaiseStillSavesAndAudits ==
    (AnyRunEnded /\ StageRaised) =>
        /\ Cardinality(SaveOps) = 1
        /\ AuditOutOnce

\* C15 amended: when the stage callable raised an Exception or SystemExit, the
\* ended run of monthly_main.main has recorded stage_error / stage_end, has
\* attempted the state save when a state store was loaded (STATE_PATH set; no
\* save without one), and has written the audit log exactly once, with every
\* event, to the store or to stdout; the exit code is 1 after an Exception and
\* the code of the SystemExit otherwise.
C15_RaiseSavesLoadedStateAndAudits ==
    (AnyRunEnded /\ StageRaised) =>
        /\ Cardinality(SaveOps) = (IF statePath THEN 1 ELSE 0)
        /\ \A i \in SaveOps : \A j \in AuditWrites : i < j
        /\ AuditOutOnce
        /\ \E i \in DOMAIN audit :
              \/ audit[i].event = "stage_error" /\ rc = "1"
              \/ audit[i].event = "stage_end" /\ audit[i].code = rc

C15_Witness ==
    /\ AnyRunEnded /\ StageRaised /\ statePath
    /\ \E i \in DOMAIN audit : audit[i] = StageExit("1")
    /\ \E i \in SaveOps : ~ops[i].ok
    /\ \E f \in logs : f.path = RunLogPath(run) /\ Len(f.body) > 2

\* the lines of a log text, as str.splitlines() gives them
IsNL(t) == "nl" \in DOMAIN t
FirstNL(t) == IF \E i \in DOMAIN t : IsNL(t[i])
              THEN CHOOSE i \in DOMAIN t : IsNL(t[i]) /\ \A j \in 1..(i - 1) : ~IsNL(t[j])
              ELSE Len(t) + 1
RECURSIVE Lines(_)
Lines(t) ==
    IF t = <<>> THEN <<>>
    ELSE <<SubSeq(t, 1, FirstNL(t) - 1)>> \o Lines(SubSeq(t, FirstNL(t) + 1, Len(t)))
NotBlank(l) == l # <<>>
\* the lines of a log file that hold something
FileLines(t) == SelectSeq(Lines(t), NotBlank)
\* the buffered records, one JSON document per line
BufferLines(events) == [i \in 1..Len(events) |-> <<Json(events[i])>>]

Buffered == logger \in {"Audit", "AuditLogger", "StateStore"}
LastOp == ops[Len(ops)]
JustFlushedOK == pc = "a_flushed" /\ LastOp.ok

\* the buffer only grows at its end
AppendOnly == /\ Len(audit') >= Len(audit)
              /\ \A i \in DOMAIN audit : audit'[i] = audit[i]

\* C16: the audit buffers (Audit.events, AuditLogger.buffer, StateStore._audit) are
\* append-only, recording an event never raises, and the file a flush has written
\* holds exactly the buffered records, one JSON line each, in order.
C16_BufferAppendOnlyFlushedWhole ==
    /\ [](/\ (Buffered /\ pc = "a_logged") => rc = "0"
          /\ (Buffered /\ JustFlushedOK) =>
                \E f \in logs : /\ f.path = LastOp.path
                                /\ FileLines(f.body) = BufferLines(audit))
    /\ [][Buffered => AppendOnly]_vars

C16_Witness ==
    /\ logger = "StateStore" /\ JustFlushedOK
    /\ Len(audit) >= 2
    /\ \E i \in DOMAIN audit : i < Len(audit) /\ audit[i] = FlushFailed
    /\ \E f \in logs : FileLines(f.body) = BufferLines(audit)

JustFlushFailed == pc = "a_flushed" /\ ~LastOp.ok

\* the last lines of stdout are the buffered records, one line each
StdoutEndsWithBuffer ==
    /\ Len(stdout) >= Len(audit)
    /\ SubSeq(stdout, Len(stdout) - Len(audit) + 1, Len(stdout)) = safe_json(audit)

\* C17 as stated: when writing the audit log fails, the flush does not raise and
\* every buffered record is emitted to stdout.
C17_FlushFailureGoesToStdout ==
    (Buffered /\ JustFlushFailed) =>
        /\ rc # "exception"
        /\ StdoutEndsWithBuffer

\* C17 amended: when writing the audit log fails, monthly_main does not raise and
\* emits the warning and every buffered record to stdout;
\* StateStore.flush_audit_jsonl does not raise either but emits nothing, it appends
\* an error record to its buffer; AuditLogger.flush raises and emits nothing.
C17_OnlyMainFallsBackToStdout ==
    (Buffered /\ JustFlushFailed) =>
        /\ logger = "Audit" =>
              /\ rc = "0"
              /\ StdoutEndsWithBuffer
              /\ stdout[Len(stdout) - Len(audit)] = Warn
        /\ logger = "StateStore" =>
              /\ rc = "0"
              /\ stdout = <<>>
              /\ audit[Len(audit)] = FlushFailed
        /\ logger = "AuditLogger" =>
              /\ rc = "exception"
              /\ stdout = <<>>

C17_Witness ==
    /\ logger = "Audit" /\ JustFlushFailed
    /\ Len(audit) >= 2
    /\ Len(stdout) = Len(audit) + 1
    /\ logs = {}

\* C18 as stated: all audit records of one run end up in exactly one log file whose
\* path is determined by the run, and every log / flush call of the run targets
\* that same path.
C18_OneLogFilePerRun ==
    /\ \A i \in AuditWrites : \A j \in AuditWrites : ops[i].path = ops[j].path
    /\ Cardinality(logs) <= 1
    /\ (logger = "JsonlLogger" /\ faults = 0 /\ audit # <<>>) =>
          \E f \in logs : FileLines(f.body) = BufferLines(audit)

\* C19 as stated: a move into DONE never overwrites or replaces an entry that is
\* already archived there (the destination name embeds the revision or hash).
C19_ArchivedNeverReplaced == [][doneDir \subseteq doneDir']_vars

\* a store call of the pass on a stage directory
StageOps == {i \in DOMAIN ops : ops[i].dir \notin {"STATE", "LOGS", "ALL", "MEM"}}
StagePass == prog \in {"multistage", "stage00"}

\* reads and listings touch IN only, moves go into DONE only
ReadsInMovesDone ==
    \A i \in StageOps :
        /\ ops[i].op \in {"list", "read"} => ops[i].dir = "IN"
        /\ ops[i].op = "move" => ops[i].dir = "DONE"
        /\ ops[i].op \in {"list", "read", "move", "write", "copy", "mkdir"}

\* C20 as stated: a pass for stage S reads only S/IN, writes only S/OUT and the IN
\* of S's successor, moves only from S/IN into S/DONE, and leaves every other
\* stage directory unchanged.
C20_FrameOwnDirsAndSuccessorIn ==
    /\ [](StagePass =>
            /\ ReadsInMovesDone
            /\ \A i \in StageOps :
                  ops[i].op \in {"write", "copy", "mkdir"} =>
                      ops[i].dir \in {"OUT", "DONE", "NEXT_IN"}
            /\ \A a \in outDir : a.dir \in {"OUT", "NEXT_IN"})
    /\ [][StagePass => \A s \in AllStages \ {Succ(stage)} : otherIn'[s] = otherIn[s]]_vars

\* C20 amended: a pass for stage S reads only S/IN and moves files only from S/IN
\* into S/DONE. The stages 00 and 10 of run_switch_stage write only into the IN
\* of S's successor (never into S/OUT), stage 20 writes only into the OUT of its
\* successor (30/OUT), and stage00.run writes only into S/OUT; no other stage
\* directory is changed, and a successor's IN only gains files.
C20_FrameSuccessorInOrOut ==
    /\ [](StagePass =>
            /\ ReadsInMovesDone
            /\ \A i \in StageOps :
                  /\ ops[i].op \in {"write", "copy"} =>
                        ops[i].dir = (IF prog = "stage00" THEN "OUT"
                                      ELSE IF stage = "20" THEN "NEXT_OUT"
                                      ELSE "NEXT_IN")
                  /\ ops[i].op = "mkdir" => prog = "stage00" /\ ops[i].dir \in {"OUT", "DONE"}
            /\ \A a \in outDir :
                  a.dir = (IF prog = "stage00" THEN "OUT"
                           ELSE IF stage = "20" THEN "NEXT_OUT"
                           ELSE "NEXT_IN"))
    /\ [][StagePass =>
            \A s \in AllStages :
                otherIn'[s] # otherIn[s] =>
                    /\ prog = "multistage" /\ stage \in {"00", "10"} /\ s = Succ(stage)
                    /\ otherIn[s] \subseteq otherIn'[s]
                    /\ pc = "m_write"]_vars

C20_Witness ==
    /\ prog = "multistage" /\ stage = "20" /\ AnyRunEnded
    /\ \E a \in outDir : a.dir = "NEXT_OUT"
    /\ \E i \in StageOps : ops[i].op = "move" /\ ops[i].ok
    /\ otherIn["10"] # {}

\* no candidate module of the requested stage can be imported
NoStageModule ==
    /\ prog = "stage00"
    /\ \A i \in DOMAIN _candidate_module_names(stage) :
          ~Importable(_candidate_module_names(stage)[i])

DispatchEvents == {i \in DOMAIN audit : audit[i].event = "stage_dispatch"}

\* C21: when no stage module can be imported for the requested stage,
\* monthly_main.main ends with exit code 0, has logged one stage_dispatch event
\* with ok = false that lists every module name tried, has written the audit log
\* once (or printed it when the write failed), and has done no stage work and no
\* state save.
C21_NoModuleIsGracefulNoOp ==
    /\ NoStageModule => pc \in {"idle", "d_start", "d_load", "d_nomodule"}
    /\ (NoStageModule /\ DriverEnded /\ make_dbx_from_env(creds) # "raise") =>
          /\ rc = "0"
          /\ Cardinality(DispatchEvents) = 1
          /\ \A i \in DispatchEvents :
                /\ ~audit[i].ok
                /\ audit[i].tried = _candidate_module_names(stage)
          /\ ~HasEvent("stage_start")
          /\ AuditOutOnce
          /\ SaveOps = {} /\ StageOps = {}
          /\ processed = 0 /\ outDir = {} /\ doneDir = {}

C21_Witness ==
    /\ NoStageModule /\ DriverEnded /\ statePath /\ StateLoaded
    /\ \E i \in DispatchEvents : Len(audit[i].tried) = Len(CandidatePkgs)
    /\ \E f \in logs : f.path = RunLogPath(run) /\ f.body = to_jsonl(audit)
    /\ \E n \in Names : inDir[n] # NoFile

\* the last store call of the run was a successful write of the state document
JustSaved == /\ ops # <<>>
             /\ ops[Len(ops)].op = "write" /\ ops[Len(ops)].dir = "STATE"
             /\ ops[Len(ops)].ok

\* the keys of the processed mapping of a state document; main.py maps a path
\* to its revision (state.processed[f.path] = f.rev), so there the key is the path
Recorded(doc) == IF prog = "inbox" THEN {k[2] : k \in doc.keys} ELSE doc.keys

\* C22 as stated: a key recorded in the persisted ledger stays recorded after
\* every later load, mark and save, whatever the outcome of each load: no step
\* removes a key from the persisted ledger.
C22_LedgerMonotonic == [][Recorded(stateDoc) \subseteq Recorded(stateDoc')]_vars

\* C22 amended: no step of a run whose load of the state document succeeded
\* removes a key from the persisted ledger.
C22_LedgerMonotonicIfLoaded ==
    [][RunLoadOK => Recorded(stateDoc) \subseteq Recorded(stateDoc')]_vars

C22_Witness ==
    /\ run = 2 /\ RunLoadOK /\ JustSaved
    /\ loaded # {} /\ loaded \subseteq stateDoc.keys /\ stateDoc.keys # loaded
    /\ Recorded(stateDoc) # {}

\* the move calls of the pass whose source is file n, failed ones included
MovesOf(n) == {i \in DOMAIN ops : ops[i].op = "move" /\ ops[i].file = n}

\* C23: within one pass no file is the source of more than one move.
C23_MovedAtMostOnce == \A n \in Names : Cardinality(MovesOf(n)) <= 1

C23_Witness ==
    /\ pc = "idle" /\ rc = "0" /\ processed >= 2
    /\ \E n1, n2 \in Names : n1 # n2 /\ MovesOf(n1) # {} /\ MovesOf(n2) # {}
    /\ \A n \in Names : \A i \in MovesOf(n) : ops[i].ok

\* the files the pass handed to its transform (stage00.run: to its copy),
\* failed attempts included
Tried == {n \in Names : \E i \in DOMAIN ops :
             ops[i].file = n /\ ops[i].op \in {"copy", "transform"}}
\* the files whose content the pass read, or tried to read, or transformed
Touched == {n \in Names : \E i \in DOMAIN ops :
               ops[i].file = n /\ ops[i].op \in {"read", "copy", "transform"}}
\* the touched files none of whose calls failed
TouchedOK == {n \in Touched : \A i \in DOMAIN ops : ops[i].file = n => ops[i].ok}

\* C24 as stated: in one run the number of files read and handed to the transform,
\* failed attempts included, never exceeds max_files_per_run.
C24_AttemptsWithinCap == Cardinality(Tried) <= cap

\* C24 amended: in one run the number of files processed, and of files read and
\* handed to the transform without a failure, never exceeds max_files_per_run;
\* the monthly_pipeline stages and stage00.run cap the listing, so there the
\* failed attempts are within the cap too; main.py caps by processed_count and
\* does not count a failed attempt.
C24_ProcessedWithinCap ==
    /\ processed <= cap
    /\ Cardinality(TouchedOK) <= cap
    /\ prog # "inbox" => Cardinality(Touched) <= cap

C24_Witness ==
    /\ prog = "inbox" /\ pc = "idle" /\ rc = "0"
    /\ processed = cap /\ Cardinality(Tried) > cap
    /\ \E i \in DOMAIN ops : ops[i].op = "transform" /\ ~ops[i].ok

\* the successful saves, the loads, and the run that saved last
OKSaves == {i \in DOMAIN ops : ops[i].op = "save" /\ ops[i].ok}
RaceLoads == {i \in DOMAIN ops : ops[i].op = "load"}
LastSaver == ops[CHOOSE i \in OKSaves : \A j \in OKSaves : j <= i].by
\* both runs saved, each having loaded before the other saved
BothSavedAfterBothLoaded ==
    /\ \A r \in Racers : pc[r] = "r_saved"
    /\ \A i \in RaceLoads : \A j \in OKSaves : i < j

\* C25: when two runs on one state path both load before either saves, the
\* persisted ledger after both saves is exactly the in-memory ledger of the run
\* that saved last; keys only the earlier saver marked are absent.
C25_LastWriterWins ==
    BothSavedAfterBothLoaded =>
        /\ stateDoc.keys = ledger[LastSaver].keys
        /\ \A r \in Racers :
              \A k \in ledger[r].keys : k \notin ledger[LastSaver].keys => k \notin stateDoc.keys

C25_Witness ==
    /\ BothSavedAfterBothLoaded
    /\ \E r \in Racers : \E k \in ledger[r].keys :
          /\ r # LastSaver /\ k \notin loaded[r].mem.keys
          /\ k \notin ledger[LastSaver].keys /\ k \notin stateDoc.keys
    /\ ledger[LastSaver].keys # loaded[LastSaver].mem.keys

\* a state document as the programs write it: an object whose 'processed' maps
\* keys to string markers
WellFormed(doc) == /\ doc.exists /\ doc.json = "object" /\ doc.proc = "map"
                   /\ doc.vals = "str"

\* run r has just saved, without marking anything, the document it loaded, and
\* nobody else saved in between
SavedBackUnmarked(r) ==
    /\ ops # <<>>
    /\ ops[Len(ops)] = RaceOp("save", r, TRUE, loaded[r].doc)
    /\ loaded[r].ok /\ WellFormed(loaded[r].doc)
    /\ ledger[r] = loaded[r].mem

\* C30 as stated: loading a well-formed state document and saving it again
\* without marking anything leaves the processed mapping identical and keeps
\* every other top-level field of the document.
C30_LoadSaveRoundTrip ==
    \A r \in Racers : SavedBackUnmarked(r) =>
        /\ stateDoc.keys = loaded[r].doc.keys
        /\ stateDoc.vals = loaded[r].doc.vals
        /\ loaded[r].doc.other \subseteq stateDoc.other

\* C30 amended: the processed mapping is identical after the round trip with
\* either class; the other top-level fields are kept by state_store.StateStore
\* only: state.StateStore writes a document that holds 'processed' alone.
C30_RoundTripKeepsProcessed ==
    \A r \in Racers : SavedBackUnmarked(r) =>
        /\ stateDoc.keys = loaded[r].doc.keys
        /\ stateDoc.vals = loaded[r].doc.vals
        /\ prog = "state_store" => loaded[r].doc.other \subseteq stateDoc.other
        /\ prog = "state" => stateDoc.other = {}

C30_Witness ==
    \E r \in Racers :
        /\ SavedBackUnmarked(r) /\ prog = "state_store"
        /\ loaded[r].doc.keys # {} /\ "updated_at_utc" \in loaded[r].doc.other
        /\ stateDoc.keys = loaded[r].doc.keys /\ "updated_at_utc" \in stateDoc.other

\* the structured calls made for file n, in order, and its fallback calls
StructuredCalls(n) == SelectSeq(ops, LAMBDA o : o.op = "structured" /\ o.file = n)
FallbackCalls(n) == SelectSeq(ops, LAMBDA o : o.op = "fallback" /\ o.file = n)

\* C26 as stated: the structured parse of a PDF is tried with the budgets t0,
\* max(1200, t0 // 2), max(800, t0 // 3) in this order, nothing is tried after a
\* success, and the non-structured fallback runs only after all three failed.
C26_ThreeBudgetsBeforeFallback ==
    \A n \in Names :
        LET a == StructuredCalls(n) IN
        /\ Len(a) <= 3
        /\ \A i \in DOMAIN a : /\ a[i].tokens = Budgets(max_output_tokens)[i]
                               /\ a[i].ok => i = Len(a)
        /\ FallbackCalls(n) # <<>> => (Len(a) = 3 /\ \A i \in DOMAIN a : ~a[i].ok)

\* the files of a directory that stem from workbook w: their name starts with its stem
StemsFrom(dir, w) == {f \in dir : f.name[1] = ToString(w)}
Workbooks == {w \in Names : \E s \in MStages : \E f \in inDir[s] \cup doneDir[s] :
                 f.name[1] = ToString(w)}
\* the three stages ran once each, in pipeline order, and the last run has ended
RanInOrder == hist = Order /\ pc = "idle"

RECURSIVE TextLines(_)
TextLines(text) == IF text = <<>> THEN <<>>
                   ELSE IF text[1] = <<>> THEN TextLines(Tail(text))
                   ELSE <<text[1]>> \o TextLines(Tail(text))
IsPrefix(s, t) == Len(s) <= Len(t) /\ SubSeq(t, 1, Len(s)) = s

\* C28 as stated: every line of INDEX.md before a call of append_outbox_index is
\* still there after it, unchanged and in the same order, whatever the read of
\* the existing index gave.
C28_IndexAppendOnly == [][IsPrefix(TextLines(IndexText), TextLines(IndexText'))]_vars

\* the index lines of a text that link to exactly the name nm
LinesOf(nm, text) == {i \in DOMAIN text : text[i] = IndexLine(nm)}
LastCall == ops[Len(ops)]

\* C29 as stated: a second call with the same out_md_name leaves INDEX.md as it
\* was after the first, every name has at most one index line, and a call with
\* a name that no line links to appends its line.
C29_IdempotentPerName ==
    /\ \A nm \in IndexNames : Cardinality(LinesOf(nm, IndexText)) <= 1
    /\ ops # <<>> =>
          /\ (Len(ops) >= 2 /\ ops[Len(ops) - 1].file = LastCall.file /\ ops[Len(ops) - 1].ok)
                => IndexText = LastCall.before
          /\ (LastCall.ok /\ LinesOf(LastCall.file, LastCall.before) = {})
                => /\ LinesOf(LastCall.file, IndexText) # {}
                   /\ IsPrefix(TextLines(LastCall.before), TextLines(IndexText))

\* C10: StateStore.load (both modules) never raises; a missing path, a read
\* error, invalid JSON, a JSON value that is not an object and a 'processed'
\* field that is not a mapping all give an empty processed mapping.
C10_LoadNeverRaises ==
    pc \in {"l_state_store", "l_state"} =>
        /\ rc = "0"
        /\ (~ops[1].ok \/ ~stateDoc.exists \/ stateDoc.json # "object"
              \/ stateDoc.proc # "map") => ledger = {}

C10_Witness ==
    /\ pc = "l_state_store"
    /\ stateDoc.exists /\ stateDoc.json = "invalid" /\ ops[1].ok
    /\ ledger = {} /\ rc = "0"

====
